---- MODULE Spec2Model ----
(***************************************************************************)
(* Two-pass layout engine of the x86 assembler (X86Compiler): first pass,  *)
(* second pass with instruction shrinking and `times` expansion, and the   *)
(* relative-jump encoder of BinaryInstruction; the ModR/M encoder of       *)
(* BinaryInstruction.compile, the operand parser of ASTInstruction, the   *)
(* sign-extended immediate matcher, the memory-expression parser           *)
(* (parseMemExpression), X86Compiler.setMode and the packing of quoted     *)
(* text into a number (reduceTextToBitset).                                *)
(***************************************************************************)
EXTENDS Integers, Sequences, FiniteSets, TLC

VARIABLES
  tree,           \* X86Compiler.tree.astNodes
  maxPasses,      \* X86Compiler.maxPasses
  pc,             \* position in compile(): firstPass / secondPass / passEnd / produce / done / error
  origin,         \* X86Compiler._origin
  offset,         \* firstPass: let offset
  originDefined,  \* firstPass: let originDefined
  nodeIdx,        \* firstPass: index of the next AST node of R.forEach
  labels,         \* FirstPassResult.labels (name -> address)
  nodesOffsets,   \* FirstPassResult.nodesOffsets (insertion-ordered Map address -> blob)
  pass,           \* secondPass: let pass
  needPass,       \* secondPass: let needPass
  needSort,       \* secondPass: let needSort
  cursor,         \* secondPass: position of the Map iterator inside nodesOffsets
  totalPasses,    \* SecondPassResult.totalPasses
  blobs,          \* SecondPassResult.blobs (insertion-ordered Map address -> compiled blob)
  error,          \* ParserErrorCode thrown, "" if none
  last,           \* history: the last layout change made by the second pass
  encoder,        \* BinaryInstruction.compile of one instruction: its inputs, locals and output
  argsParser,     \* ASTInstruction.parseInstructionArgsTokens of one token list: its inputs and locals
  immMatch,       \* one Number operand on its way to immCanBeImplicitSignExtendedToByte
  memParser,      \* parseMemExpression of one bracket phrase: its tokens, locals and outcome
  modeSetter      \* X86Compiler._mode under a list of `bits` options

layoutVars == <<tree, maxPasses, pc, origin, offset, originDefined, nodeIdx, labels,
                nodesOffsets, pass, needPass, needSort, cursor, totalPasses, blobs,
                error, last>>

vars == <<layoutVars, encoder, argsParser, immMatch, memParser, modeSetter>>

\* no instruction is being encoded on its own
EncoderIdle == [pc |-> "idle"]

\* no operand list is being parsed on its own
ArgsParserIdle == [pc |-> "idle"]

\* no operand is being matched on its own
ImmMatchIdle == [pc |-> "idle"]

\* no memory expression is being parsed on its own
MemParserIdle == [pc |-> "idle"]

\* no list of `bits` options is being applied on its own
ModeSetterIdle == [pc |-> "idle"]

-----------------------------------------------------------------------------
(* Bounds of the model *)

MaxNodes == 3        \* longest program (number of AST nodes)
MaxTimes == 2        \* largest `times` count
MaxPrefixes == 1     \* most instruction prefixes put before a jump

(* Program constants *)
DefaultMaxPasses == 4

-----------------------------------------------------------------------------
(* Numbers and bytes *)

Abs(n) == IF n < 0 THEN -n ELSE n

Pow256(n) == IF n = 0 THEN 1 ELSE IF n = 1 THEN 256 ELSE IF n = 2 THEN 65536 ELSE 16777216

\* (num >> (nth * 0x8)) & 0xFF; floor division is the arithmetic shift of an int32,
\* whose shift count is taken modulo 32
extractNthByte(nth, num) == (num \div Pow256(nth % 4)) % 256

\* X86AbstractCPU.bitMask for the 0x1 and 0x2 operand sizes of the 16-bit target
bitMask(bits) == IF bits = 1 THEN 255 ELSE 65535

toUnsignedNumber(num, bits) ==
  LET up == bitMask(bits)
  IN  IF num > up THEN num - up - 1
      ELSE IF num < 0 THEN up + num + 1
      ELSE num

\* bytes needed by |num|, rounded to 1, 2 or 4
roundedNumberByteSize(num) ==
  IF Abs(num) <= 255 THEN 1 ELSE IF Abs(num) <= 65535 THEN 2 ELSE 4

\* bytes needed by num as a signed value, rounded to 1, 2 or 4
roundedSignedNumberByteSize(num) ==
  IF Abs(num) <= 127 THEN 1 ELSE IF Abs(num) <= 32767 THEN 2 ELSE 4

\* a possibly-null address: <<>> is null, <<a>> is the number a
NullAddr == <<>>
Addr(a) == <<a>>
\* a null operand of JS arithmetic counts as 0
AddrNum(a) == IF a = NullAddr THEN 0 ELSE a[1]

-----------------------------------------------------------------------------
(* AST nodes *)

\* an operand: its type, the label it names, its value, byteSize and resolved flag
NoArg == [type |-> "NONE", name |-> "", val |-> 0, byteSize |-> 0, resolved |-> TRUE]
LabelArg(n) == [type |-> "LABEL", name |-> n, val |-> 0, byteSize |-> 0, resolved |-> TRUE]
NumberArg(v) ==
  [type |-> "NUMBER", name |-> "", val |-> v, byteSize |-> roundedNumberByteSize(v),
   resolved |-> TRUE]

\* the memory operand [n] of `mov bx, [n]`, as its constructor leaves it when n is a label
\* and no resolver is there: no address description, byteSize of the register before it
ASTInstructionMemLabelArg(n) ==
  [type |-> "MEMORY", name |-> n, val |-> 0, byteSize |-> 2, resolved |-> FALSE]

\* identity of an AST node object: its index in the tree and, for a clone made
\* by `times`, the number of the copy
Loc(i, j) == [node |-> i, copy |-> j]

\* a label definition; localName is the name as written when it starts with `.`
ASTLabel(n) == [kind |-> "LABEL", loc |-> Loc(0, 0), name |-> n, localName |-> ""]

\* a local label definition under a parent: its name is the absolute name
ASTLocalLabel(parent, n) ==
  [kind |-> "LABEL", loc |-> Loc(0, 0), name |-> parent \o n, localName |-> n]

ASTCompilerOption(opt, n) ==
  [kind |-> "COMPILER_OPTION", loc |-> Loc(0, 0), option |-> opt, arg |-> n]

ASTDef(bytes) == [kind |-> "DEFINE", loc |-> Loc(0, 0), bytes |-> bytes]

ASTInstruction(opcode, arg, bat, prefixes) ==
  [kind |-> "INSTRUCTION",
   loc |-> Loc(0, 0),
   opcode |-> opcode,
   originalArg |-> arg,                \* originalArgsTokens
   arg |-> arg,                        \* args, regenerated by tryResolveSchema
   branchAddressingType |-> bat,       \* "" (null), "short", "near"
   prefixes |-> prefixes,
   labeledInstruction |-> (arg.type = "LABEL"),
   unresolvedArgs |-> FALSE,
   schemas |-> <<>>]

ASTTimes(k, node) ==
  [kind |-> "TIMES", loc |-> Loc(0, 0), timesExpression |-> k, repeatedNode |-> node]

-----------------------------------------------------------------------------
(* Schema registry: the entries of the instruction set used by the model *)

Schema(mnemonic, matcher, binarySchema) ==
  [mnemonic |-> mnemonic, matcher |-> matcher, binarySchema |-> binarySchema,
   byteSize |-> Len(binarySchema)]

COMPILER_INSTRUCTIONS_SET(opcode) ==
  IF opcode = "nop" THEN << Schema("nop", "none", <<"90">>) >>
  ELSE IF opcode = "jmp" THEN
    << Schema("jmp", "rel8", <<"eb", "r0">>),
       Schema("jmp", "near_ptr", <<"e9", "r0", "r1">>) >>
  ELSE IF opcode = "mov" THEN << Schema("mov", "rmw", <<"8b", "mr", "d0", "d1">>) >>
  ELSE << >>

\* Number.parseInt(schema, 16) of a literal atom
HexByte(atom) ==
  IF atom = "90" THEN 144 ELSE IF atom = "eb" THEN 235 ELSE IF atom = "e9" THEN 233
  ELSE IF atom = "8b" THEN 139 ELSE IF atom = "a1" THEN 161 ELSE IF atom = "83" THEN 131
  ELSE 0

-----------------------------------------------------------------------------
(* Operand matchers *)

\* mem of an operand whose size was not written with an override
mem(arg, maxByteSize) ==
  arg.type = "MEMORY" /\ (maxByteSize = 0 \/ arg.byteSize <= maxByteSize)

relLabel(instruction, arg, signedByteSize, absoluteAddress) ==
  IF arg.type = "LABEL" THEN TRUE
  ELSE IF arg.type = "NUMBER" THEN
    IF instruction.branchAddressingType # "" /\ instruction.branchAddressingType # "short"
    THEN FALSE
    ELSE LET relativeToInstruction == arg.val - AddrNum(absoluteAddress) - signedByteSize
         IN  roundedSignedNumberByteSize(relativeToInstruction) = signedByteSize
  ELSE FALSE

nearPointer(instruction, arg, maxByteSize, absoluteAddress) ==
  IF arg.type = "LABEL" THEN TRUE
  ELSE IF arg.type = "NUMBER" THEN
    IF instruction.branchAddressingType # "" /\ instruction.branchAddressingType # "near"
    THEN FALSE
    ELSE IF absoluteAddress = NullAddr /\ arg.byteSize <= maxByteSize THEN TRUE
    ELSE LET relativeToSegment == arg.val - AddrNum(absoluteAddress) - maxByteSize
         IN  roundedSignedNumberByteSize(relativeToSegment) <= maxByteSize
  ELSE FALSE

matchSchema(schema, instruction, absoluteAddress) ==
  IF schema.matcher = "none" THEN instruction.arg.type = "NONE"
  ELSE IF schema.matcher = "rel8" THEN relLabel(instruction, instruction.arg, 1, absoluteAddress)
  ELSE IF schema.matcher = "near_ptr" THEN nearPointer(instruction, instruction.arg, 2, absoluteAddress)
  ELSE IF schema.matcher = "rmw" THEN mem(instruction.arg, 2)
  ELSE FALSE

RECURSIVE FilterSeq(_, _, _)
FilterSeq(s, instruction, absoluteAddress) ==
  IF s = <<>> THEN <<>>
  ELSE (IF matchSchema(Head(s), instruction, absoluteAddress) THEN <<Head(s)>> ELSE <<>>)
       \o FilterSeq(Tail(s), instruction, absoluteAddress)

findMatchingInstructionSchemas(instruction, absoluteAddress) ==
  FilterSeq(COMPILER_INSTRUCTIONS_SET(instruction.opcode), instruction, absoluteAddress)

\* index of the widest schema of a non-empty list (the first of the widest)
RECURSIVE WidestIndex(_, _, _)
WidestIndex(s, i, best) ==
  IF i > Len(s) THEN best
  ELSE WidestIndex(s, i + 1, IF s[i].byteSize > s[best].byteSize THEN i ELSE best)

\* pessimistic order: the widest matching schema is taken while a label is unresolved
pessimisticSchemas(s) ==
  IF s = <<>> THEN s
  ELSE LET w == WidestIndex(s, 1, 1)
       IN  <<s[w]>> \o SubSeq(s, 1, w - 1) \o SubSeq(s, w + 1, Len(s))

\* names of local labels, as written: they start with `.`
LocalNames == {".x"}

isLocalLabel(name) == name \in LocalNames

\* R.indexOf(astInstruction, tree.astNodes): 0-based, -1 when the node is not in the list
indexOf(ast, astNodes) ==
  IF \E i \in 1..Len(astNodes) : astNodes[i].loc = ast.loc
  THEN (CHOOSE i \in 1..Len(astNodes) : astNodes[i].loc = ast.loc) - 1
  ELSE -1

\* no name: the lookup of the parent label failed
NoName == ""

\* the absolute name of a local label used at instructionIndex (0-based): the name of
\* the nearest non-local label at or before that index, followed by the local name
resolveLocalTokenAbsName(astNodes, name, instructionIndex) ==
  LET parents == {i \in 1..Len(astNodes) :
                    /\ i - 1 <= instructionIndex
                    /\ astNodes[i].kind = "LABEL"
                    /\ astNodes[i].localName = ""}
      nearest == CHOOSE i \in parents : \A j \in parents : j <= i
  IN  IF parents = {} THEN NoName ELSE astNodes[nearest].name \o name

\* a label resolver: <<>> is null, otherwise labelResolver(astInstruction) over the
\* label map and the tree
NoResolver == <<>>
Resolver(lbls, astNodes, ast) == <<lbls, astNodes, indexOf(ast, astNodes)>>

\* the argument left by a resolver that threw
ThrownArg(code) == [type |-> "THROWN", name |-> code, val |-> 0, byteSize |-> 0, resolved |-> TRUE]

assignLabelsToTokens(labelResolver, originalArg) ==
  IF originalArg.type # "LABEL" \/ labelResolver = NoResolver THEN originalArg
  ELSE LET name == IF isLocalLabel(originalArg.name)
                   THEN resolveLocalTokenAbsName(labelResolver[2], originalArg.name,
                                                 labelResolver[3])
                   ELSE originalArg.name
       IN  IF name = NoName THEN ThrownArg("MISSING_PARENT_LABEL")
           ELSE IF name \in DOMAIN labelResolver[1]
                THEN NumberArg(labelResolver[1][name])
                ELSE originalArg

-----------------------------------------------------------------------------
(* parseMemExpression: the phrase between [ and ] reduced to a MemAddressDescription *)

\* an absent register mnemonic (undefined) and an absent size (null)
NoReg == ""
NoSize == -1

\* optional values: <<>> is null, <<v>> is the value v
NoDisp == <<>>
NoScale == <<>>

Scale(reg, value) == <<[reg |-> reg, value |-> value]>>

\* bytes needed by |num| and by num as a signed value, not rounded
numberByteSize(num) ==
  IF Abs(num) <= 255 THEN 1 ELSE IF Abs(num) <= 65535 THEN 2
  ELSE IF Abs(num) <= 16777215 THEN 3 ELSE 4

signedNumberByteSize(num) ==
  IF Abs(num) <= 127 THEN 1 ELSE IF Abs(num) <= 32767 THEN 2
  ELSE IF Abs(num) <= 8388607 THEN 3 ELSE 4

\* a lexer token: its type, kind, text and the number and byteSize of its value
Token(type, kind, text, number, byteSize) ==
  [type |-> type, kind |-> kind, text |-> text, number |-> number, byteSize |-> byteSize]

\* a keyword that is neither a register nor a size override: a label name
IdentifierToken(text) == Token("KEYWORD", "", text, 0, NoSize)

MulToken == Token("MUL", "", "*", 0, NoSize)

PlusToken == Token("PLUS", "", "+", 0, NoSize)

\* tokens[k] of a JavaScript array: undefined past the end
NoToken == Token("", "", "", 0, NoSize)

TokenAt(tokens, k) == IF k \in 1..Len(tokens) THEN tokens[k] ELSE NoToken

\* tokens.splice(i, n)
Splice(tokens, i, n) ==
  [k \in 1..(Len(tokens) - (IF i + n - 1 > Len(tokens) THEN Len(tokens) - i + 1 ELSE n)) |->
     IF k < i THEN tokens[k] ELSE tokens[k + n]]

\* a labelResolver of parseMemExpression that knows the names of `addresses`
NameResolver(addresses) == <<addresses>>

\* a keyword rpnTokens cannot give a value: no resolver, or a name the resolver does not know
UnknownKeyword(labelResolver, token) ==
  /\ token.type = "KEYWORD"
  /\ \/ labelResolver = NoResolver
     \/ token.kind = "REGISTER"
     \/ token.text \notin DOMAIN labelResolver[1]

RECURSIVE rpnFold(_, _, _, _, _)
\* rpnTokens on sums of products of numbers and labels
rpnFold(tokens, labelResolver, k, sum, product) ==
  LET closed == sum + (IF product = <<>> THEN 0 ELSE product[1])
  IN  IF k > Len(tokens) THEN closed
      ELSE IF tokens[k].type = "PLUS" THEN rpnFold(tokens, labelResolver, k + 1, closed, <<>>)
      ELSE IF tokens[k].type = "MUL" THEN rpnFold(tokens, labelResolver, k + 1, sum, product)
      ELSE LET v == IF tokens[k].type = "NUMBER" THEN tokens[k].number
                    ELSE labelResolver[1][tokens[k].text]
           IN  rpnFold(tokens, labelResolver, k + 1, sum,
                       <<IF product = <<>> THEN v ELSE product[1] * v>>)

\* a safeMemRPN that rethrows every error of rpnTokens
safeMemRPN_Throws(labelResolver, tokens) ==
  IF \E k \in 1..Len(tokens) : UnknownKeyword(labelResolver, tokens[k])
  THEN [kind |-> "throw", value |-> 0, code |-> "UNKNOWN_KEYWORD"]
  ELSE [kind |-> "ok", value |-> rpnFold(tokens, labelResolver, 1, 0, <<>>), code |-> ""]

\* Result<number, ASTExpressionParserError> of safeMemRPN, or the error it rethrows
safeMemRPN(labelResolver, tokens) ==
  IF \E k \in 1..Len(tokens) : UnknownKeyword(labelResolver, tokens[k])
  THEN IF labelResolver # NoResolver
       THEN [kind |-> "throw", value |-> 0, code |-> "UNKNOWN_KEYWORD"]
       ELSE [kind |-> "err", value |-> 0, code |-> "UNRESOLVED_LABEL"]
  ELSE [kind |-> "ok", value |-> rpnFold(tokens, labelResolver, 1, 0, <<>>), code |-> ""]

isValidScale(scale) == scale \in {1, 2, 4, 8}

\* the address description parseMemExpression starts from
EmptyAddressDescription ==
  [sreg |-> NoReg, reg |-> NoReg, scale |-> NoScale, disp |-> NoDisp,
   dispByteSize |-> NoSize, signedByteSize |-> NoSize]

MemParserState(expression, labelResolver) ==
  [pc |-> "scan", expression |-> expression, labelResolver |-> labelResolver,
   tokens |-> expression, i |-> 1, addressDescription |-> EmptyAddressDescription,
   error |-> ""]

MemParserThrow(M, code) == [M EXCEPT !.pc = "error", !.error = code]

\* the segment branch of the loop: `<reg> :` at the start of the phrase
scanSegment(M, currentReg) ==
  LET ad == [M.addressDescription EXCEPT !.sreg = currentReg]
  IN  IF ad.sreg = NoReg THEN MemParserThrow(M, "REGISTER_IS_NOT_SEGMENT_REG")
      ELSE [M EXCEPT !.addressDescription = ad, !.tokens = Splice(M.tokens, M.i, 2)]

\* the multiplication branch of the loop: reg*num or num*reg
scanScale(M, currentReg, arg1, arg2) ==
  IF M.addressDescription.scale # NoScale THEN MemParserThrow(M, "SCALE_IS_ALREADY_DEFINED")
  ELSE LET reg == IF currentReg # NoReg THEN arg1 ELSE arg2
           expr == IF currentReg # NoReg THEN arg2 ELSE arg1
           scaleResult == safeMemRPN(M.labelResolver, <<expr>>)
       IN  IF scaleResult.kind = "throw" THEN MemParserThrow(M, scaleResult.code)
           ELSE IF scaleResult.kind = "err" THEN [M EXCEPT !.pc = "unresolved"]
           ELSE IF ~isValidScale(scaleResult.value) THEN MemParserThrow(M, "INCORRECT_SCALE")
           ELSE [M EXCEPT !.addressDescription.scale = Scale(reg.text, scaleResult.value),
                          !.tokens = Splice(M.tokens, M.i, 3)]

\* the standalone register branch of the loop
scanRegister(M, currentReg) ==
  IF M.addressDescription.reg = NoReg
  THEN [M EXCEPT !.addressDescription.reg = currentReg, !.tokens = Splice(M.tokens, M.i, 1)]
  ELSE IF M.addressDescription.scale = NoScale
  THEN [M EXCEPT !.addressDescription.scale = Scale(currentReg, 1),
                 !.tokens = Splice(M.tokens, M.i, 1)]
  ELSE MemParserThrow(M, "INCORRECT_MEM_EXPRESSION")

\* one iteration of the register-eating loop of parseMemExpression
MemScanFn(M) ==
  LET arg1 == TokenAt(M.tokens, M.i)
      operator == TokenAt(M.tokens, M.i + 1)
      arg2 == TokenAt(M.tokens, M.i + 2)
      currentReg == IF arg1.kind = "REGISTER" THEN arg1.text ELSE NoReg
  IN  IF M.i = 1 /\ currentReg # NoReg /\ operator.type = "COLON"
      THEN scanSegment(M, currentReg)
      ELSE IF operator.type = "MUL" /\ (currentReg # NoReg \/ arg2.kind = "REGISTER")
      THEN scanScale(M, currentReg, arg1, arg2)
      ELSE IF currentReg # NoReg THEN scanRegister(M, currentReg)
      ELSE [M EXCEPT !.i = M.i + 1]

\* what follows the loop: the rest of the tokens is the displacement
MemDisplacementFn(M) ==
  IF M.tokens = <<>> THEN [M EXCEPT !.pc = "done"]
  ELSE LET dispResult == safeMemRPN(M.labelResolver, M.tokens)
       IN  IF dispResult.kind = "throw" THEN MemParserThrow(M, dispResult.code)
           ELSE IF dispResult.kind = "err" THEN [M EXCEPT !.pc = "unresolved"]
           ELSE [M EXCEPT !.pc = "done",
                          !.addressDescription.disp = <<dispResult.value>>,
                          !.addressDescription.dispByteSize = numberByteSize(dispResult.value),
                          !.addressDescription.signedByteSize = signedNumberByteSize(dispResult.value)]

RECURSIVE parseMemExpressionFrom(_)
\* the loop run to its end and the displacement read
parseMemExpressionFrom(M) ==
  IF M.pc # "scan" THEN M
  ELSE IF M.i <= Len(M.tokens) THEN parseMemExpressionFrom(MemScanFn(M))
  ELSE parseMemExpressionFrom(MemDisplacementFn(M))

parseMemExpression(labelResolver, expression) ==
  parseMemExpressionFrom(MemParserState(expression, labelResolver))

-----------------------------------------------------------------------------
(* Schema resolution *)

\* ASTInstructionMemPtrArg.tryResolve on the phrase of one label name: the operand with
\* the displacement of the parsed address description, unchanged when the parse returns
\* the unresolved outcome
ASTInstructionMemPtrArg_tryResolve(arg, labelResolver) ==
  LET Taken(parsedMemResult) ==
        IF parsedMemResult.pc = "error" THEN ThrownArg(parsedMemResult.error)
        ELSE IF parsedMemResult.pc = "done"
        THEN [arg EXCEPT !.val = parsedMemResult.addressDescription.disp[1], !.resolved = TRUE]
        ELSE arg
  IN  Taken(parseMemExpression(labelResolver, <<IdentifierToken(arg.name)>>))

\* ASTInstruction.tryResolveSchema: the instruction with args and schemas regenerated
tryResolveSchema(ast, labelResolver, absoluteAddress) ==
  LET Matched(withArg, found) ==
        IF withArg.arg.type = "THROWN" THEN [withArg EXCEPT !.schemas = <<>>]
        ELSE [withArg EXCEPT !.schemas =
                IF withArg.arg.type = "LABEL" THEN pessimisticSchemas(found) ELSE found]
      Match(withArg) == Matched(withArg, findMatchingInstructionSchemas(withArg, absoluteAddress))
      Assigned(newArg) ==
        Match([ast EXCEPT !.arg = newArg,
                          !.unresolvedArgs = ast.unresolvedArgs \/ ~newArg.resolved])
  IN  Assigned(IF ast.originalArg.type = "MEMORY"
               THEN ASTInstructionMemPtrArg_tryResolve(ast.originalArg, labelResolver)
               ELSE assignLabelsToTokens(labelResolver, ast.originalArg))

-----------------------------------------------------------------------------
(* Binary blobs *)

RECURSIVE Flatten(_)
\* the bytes pushed by the atoms of a template, one after another
Flatten(pieces) == IF pieces = <<>> THEN <<>> ELSE Head(pieces) \o Flatten(Tail(pieces))

BinaryInstruction_compile(ast, absoluteAddress) ==
  LET primarySchema == ast.schemas[1]
      hasImm == ast.arg.type = "NUMBER"
      immArg == ast.arg
      binaryPrefixes == ast.prefixes
      binaryOutputSize == primarySchema.byteSize + Len(binaryPrefixes)
      Emit(atom) ==
        IF atom \in {"r0", "r1"} THEN
          IF hasImm THEN
            LET relAddress == immArg.val - absoluteAddress - binaryOutputSize
            IN  toUnsignedNumber(
                  extractNthByte(IF atom = "r0" THEN 0 ELSE 1, relAddress),
                  immArg.byteSize)
          ELSE 0
        ELSE HexByte(atom)
      memArg == ast.arg
      hasAddressDescription == ast.arg.type = "MEMORY" /\ ast.arg.resolved
      \* encodeRMByte: RMByte(0, 0, 0) without an address description, otherwise the
      \* displacement-only row of the 16-bit table (mod 00, rm 110) with reg = bx
      rmByte == IF hasAddressDescription THEN 0 * 64 + 3 * 8 + 6 ELSE 0
      PushAtom(atom) ==
        IF atom = "mr" THEN <<rmByte>>
        ELSE IF atom \in {"d0", "d1"} THEN
          IF hasAddressDescription
          THEN <<extractNthByte(IF atom = "d0" THEN 0 ELSE 1, memArg.val)>>
          ELSE <<>>
        ELSE <<Emit(atom)>>
      binary == Flatten([i \in 1..Len(primarySchema.binarySchema) |->
                           PushAtom(primarySchema.binarySchema[i])])
  IN  [type |-> "BinaryInstruction", ast |-> ast, binary |-> binaryPrefixes \o binary]

BinaryDefinition_compile(ast) ==
  [type |-> "BinaryDefinition", ast |-> ast, binary |-> ast.bytes]

BinaryRepeatedNode(ast) ==
  [type |-> "BinaryRepeatedNode", ast |-> ast, binary |-> <<>>]

\* blob.compile(this, offset) of the final loop
Blob_compile(blob, absoluteAddress) ==
  IF blob.type = "BinaryInstruction" THEN BinaryInstruction_compile(blob.ast, absoluteAddress)
  ELSE blob

-----------------------------------------------------------------------------
(* Insertion-ordered Map, as a sequence of entries *)

Entry(k, v) == [key |-> k, val |-> v]

MapHas(m, k) == \E i \in 1..Len(m) : m[i].key = k

MapIndex(m, k) == CHOOSE i \in 1..Len(m) : m[i].key = k

MapSet(m, k, v) ==
  IF MapHas(m, k) THEN [m EXCEPT ![MapIndex(m, k)] = Entry(k, v)]
  ELSE Append(m, Entry(k, v))

\* SelectSeq with a key test
RECURSIVE KeepKeys(_, _, _)
KeepKeys(m, bound, above) ==
  IF m = <<>> THEN <<>>
  ELSE (IF (Head(m).key > bound) = above THEN <<Head(m)>> ELSE <<>>)
       \o KeepKeys(Tail(m), bound, above)

MapDelete(m, k) ==
  IF MapHas(m, k)
  THEN SubSeq(m, 1, MapIndex(m, k) - 1) \o SubSeq(m, MapIndex(m, k) + 1, Len(m))
  ELSE m

RECURSIVE MapSetAll(_, _, _)
MapSetAll(m, entries, shift) ==
  IF entries = <<>> THEN m
  ELSE MapSetAll(MapSet(m, Head(entries).key + shift, Head(entries).val), Tail(entries), shift)

-----------------------------------------------------------------------------
(* First pass *)

FirstPassAcc(org, off, orgDef, lbls, offsets, err) ==
  [origin |-> org, offset |-> off, originDefined |-> orgDef, labels |-> lbls,
   nodesOffsets |-> offsets, error |-> err]

emitBlob(acc, blob) ==
  [acc EXCEPT
     !.nodesOffsets = MapSet(acc.nodesOffsets, acc.origin + acc.offset, blob),
     !.offset = acc.offset + (IF blob.type = "BinaryRepeatedNode" THEN 1 ELSE Len(blob.binary))]

processNode(acc, node, noAbstractInstructions) ==
  LET absoluteAddress == acc.origin + acc.offset
  IN  IF noAbstractInstructions /\ node.kind # "INSTRUCTION" /\ node.kind # "DEFINE"
      THEN [acc EXCEPT !.error = "UNPERMITTED_NODE_IN_POSTPROCESS_MODE"]
      ELSE IF node.kind = "COMPILER_OPTION" THEN
        IF node.option = "ORG" THEN
          IF acc.originDefined THEN [acc EXCEPT !.error = "ORIGIN_REDEFINED"]
          ELSE [acc EXCEPT !.origin = node.arg, !.offset = 0, !.originDefined = TRUE]
        ELSE acc
      ELSE IF node.kind = "TIMES" THEN emitBlob(acc, BinaryRepeatedNode(node))
      ELSE IF node.kind = "INSTRUCTION" THEN
        LET resolved == tryResolveSchema(node, NoResolver, NullAddr)
        IN  IF resolved.schemas = <<>>
            THEN [acc EXCEPT !.error = "UNKNOWN_COMPILER_INSTRUCTION"]
            ELSE emitBlob(acc, BinaryInstruction_compile(resolved, absoluteAddress))
      ELSE IF node.kind = "DEFINE" THEN emitBlob(acc, BinaryDefinition_compile(node))
      ELSE IF node.kind = "LABEL" THEN
        IF node.name \in DOMAIN acc.labels
        THEN [acc EXCEPT !.error = "LABEL_ALREADY_DEFINED"]
        ELSE [acc EXCEPT !.labels =
                [n \in DOMAIN acc.labels \cup {node.name} |->
                   IF n = node.name THEN absoluteAddress ELSE acc.labels[n]]]
      ELSE [acc EXCEPT !.error = "UNKNOWN_COMPILER_INSTRUCTION"]

\* R.forEach(processNode, astNodes): stops at the first throw
RECURSIVE firstPass(_, _, _)
firstPass(astNodes, acc, noAbstractInstructions) ==
  IF astNodes = <<>> \/ acc.error # "" THEN acc
  ELSE firstPass(Tail(astNodes), processNode(acc, Head(astNodes), noAbstractInstructions),
                 noAbstractInstructions)

-----------------------------------------------------------------------------
(* Second pass *)

resizeBlockAtOffset(lbls, offsets, off, enlarge) ==
  [labels |-> [n \in DOMAIN lbls |-> IF lbls[n] > off THEN lbls[n] + enlarge ELSE lbls[n]],
   nodesOffsets |-> MapSetAll(KeepKeys(offsets, off, FALSE), KeepKeys(offsets, off, TRUE), enlarge)]

appendBlobsAtOffset(offsets, off, newBlobs) == MapSetAll(offsets, newBlobs, off)

\* R.times(() => repatedNodesTree.astNodes[0].clone(), times)
RepeatNode(node, times) == [i \in 1..times |-> [node EXCEPT !.loc.copy = i]]

\* an expansion that is handed the absolute address instead of the offset
BinaryRepeatedNode_pass_AbsoluteOffset(blob, org, off) ==
  firstPass(RepeatNode(blob.ast.repeatedNode, blob.ast.timesExpression),
            FirstPassAcc(org, off + org, FALSE, <<>>, <<>>, ""), TRUE)

BinaryRepeatedNode_pass(blob, org, off) ==
  firstPass(RepeatNode(blob.ast.repeatedNode, blob.ast.timesExpression),
            FirstPassAcc(org, off, FALSE, <<>>, <<>>, ""), TRUE)

RECURSIVE SumSizes(_)
SumSizes(m) == IF m = <<>> THEN 0 ELSE Len(Head(m).val.binary) + SumSizes(Tail(m))

\* FirstPassResult.getByteSize
getByteSize(passResult) == SumSizes(passResult.nodesOffsets)

Max(a, b) == IF a > b THEN a ELSE b

RECURSIVE MinKeyIndex(_, _, _)
MinKeyIndex(m, i, best) ==
  IF i > Len(m) THEN best
  ELSE MinKeyIndex(m, i + 1, IF m[i].key < m[best].key THEN i ELSE best)

\* Array.from(nodesOffsets).sort((a, b) => a[0] - b[0])
RECURSIVE SortByKey(_)
SortByKey(m) ==
  IF m = <<>> THEN <<>>
  ELSE LET i == MinKeyIndex(m, 1, 1)
       IN  <<m[i]>> \o SortByKey(SubSeq(m, 1, i - 1) \o SubSeq(m, i + 1, Len(m)))

RECURSIVE CompileAll(_, _)
CompileAll(ordered, acc) ==
  IF ordered = <<>> THEN acc
  ELSE CompileAll(Tail(ordered),
                  MapSet(acc, Head(ordered).key, Blob_compile(Head(ordered).val, Head(ordered).key)))

\* history record: the layout change just made and the layout it was made on
Change(op, off, enlarge, lbls, offsets) ==
  [op |-> op, offset |-> off, enlarge |-> enlarge, labels |-> lbls, nodesOffsets |-> offsets]

NoChange == Change("none", 0, 0, <<>>, <<>>)

-----------------------------------------------------------------------------
(* The compilation as a state record and its steps *)

State ==
  [tree |-> tree, maxPasses |-> maxPasses, pc |-> pc, origin |-> origin, offset |-> offset,
   originDefined |-> originDefined, nodeIdx |-> nodeIdx, labels |-> labels,
   nodesOffsets |-> nodesOffsets, pass |-> pass, needPass |-> needPass,
   needSort |-> needSort, cursor |-> cursor, totalPasses |-> totalPasses,
   blobs |-> blobs, error |-> error, last |-> last]

Assign(S) ==
  /\ tree' = S.tree /\ maxPasses' = S.maxPasses /\ pc' = S.pc /\ origin' = S.origin
  /\ offset' = S.offset /\ originDefined' = S.originDefined /\ nodeIdx' = S.nodeIdx
  /\ labels' = S.labels /\ nodesOffsets' = S.nodesOffsets /\ pass' = S.pass
  /\ needPass' = S.needPass /\ needSort' = S.needSort /\ cursor' = S.cursor
  /\ totalPasses' = S.totalPasses /\ blobs' = S.blobs /\ error' = S.error
  /\ last' = S.last
  /\ UNCHANGED <<encoder, argsParser, immMatch, memParser, modeSetter>>

\* new X86Compiler(tree, maxPasses), about to run compile()
InitState(t, mp) ==
  [tree |-> t, maxPasses |-> mp, pc |-> "firstPass", origin |-> 0, offset |-> 0,
   originDefined |-> FALSE, nodeIdx |-> 1, labels |-> <<>>, nodesOffsets |-> <<>>,
   pass |-> 0, needPass |-> FALSE, needSort |-> FALSE, cursor |-> 1, totalPasses |-> 0,
   blobs |-> <<>>, error |-> "", last |-> NoChange]

Throw(S, code) == [S EXCEPT !.pc = "error", !.error = code]

\* one node of the first pass's R.forEach
FirstPassNodeFn(S) ==
  LET acc == processNode(
               FirstPassAcc(S.origin, S.offset, S.originDefined, S.labels, S.nodesOffsets, ""),
               S.tree[S.nodeIdx], FALSE)
      S1 == [S EXCEPT !.origin = acc.origin, !.offset = acc.offset,
                      !.originDefined = acc.originDefined, !.labels = acc.labels,
                      !.nodesOffsets = acc.nodesOffsets, !.nodeIdx = S.nodeIdx + 1]
  IN  IF acc.error # "" THEN Throw(S, acc.error)
      ELSE IF S.nodeIdx + 1 > Len(S.tree)
           THEN [S1 EXCEPT !.pc = "secondPass", !.pass = 0, !.needPass = FALSE, !.cursor = 1]
           ELSE S1

\* an expansion that asks for no further iteration of the second pass
ExpandTimesFn_NoFurtherPass(S) ==
  LET off == S.nodesOffsets[S.cursor].key
      blob == S.nodesOffsets[S.cursor].val
      blobResult == BinaryRepeatedNode_pass(blob, S.origin, off - S.origin)
      blobSize == getByteSize(blobResult)
      enlarge == Max(1, blobSize - 1)
      resized == resizeBlockAtOffset(S.labels, MapDelete(S.nodesOffsets, off), off, enlarge)
      appended == appendBlobsAtOffset(resized.nodesOffsets, 0, blobResult.nodesOffsets)
  IN  IF blobResult.error # "" THEN Throw(S, blobResult.error)
      ELSE [S EXCEPT !.labels = resized.labels, !.nodesOffsets = appended,
                     !.needSort = TRUE, !.needPass = S.needPass,
                     !.cursor = Len(appended) + 1,
                     !.last = Change("times", off, enlarge, S.labels, S.nodesOffsets)]

\* second pass, blob instanceof BinaryRepeatedNode
ExpandTimesFn(S) ==
  LET off == S.nodesOffsets[S.cursor].key
      blob == S.nodesOffsets[S.cursor].val
      blobResult == BinaryRepeatedNode_pass(blob, S.origin, off - S.origin)
      blobSize == getByteSize(blobResult)
      enlarge == Max(1, blobSize - 1)
      resized == resizeBlockAtOffset(S.labels, MapDelete(S.nodesOffsets, off), off, enlarge)
      appended == appendBlobsAtOffset(resized.nodesOffsets, 0, blobResult.nodesOffsets)
  IN  IF blobResult.error # "" THEN Throw(S, blobResult.error)
      ELSE [S EXCEPT !.labels = resized.labels, !.nodesOffsets = appended,
                     !.needSort = TRUE, !.needPass = TRUE,
                     !.cursor = Len(appended) + 1,
                     !.last = Change("times", off, enlarge, S.labels, S.nodesOffsets)]

\* second pass, blob instanceof BinaryInstruction
ResolveInstructionFn(S) ==
  LET off == S.nodesOffsets[S.cursor].key
      blob == S.nodesOffsets[S.cursor].val
      ast == blob.ast
      pessimisticSize == Len(blob.binary)
      resolved == tryResolveSchema(ast, Resolver(S.labels, S.tree, ast), Addr(off))
      recompiled == BinaryInstruction_compile(resolved, off)
      shrinkBytes == pessimisticSize - Len(recompiled.binary)
      finalAst == [resolved EXCEPT !.unresolvedArgs = (shrinkBytes # 0) \/ ast.unresolvedArgs,
                                   !.schemas = <<resolved.schemas[1]>>]
      resized == resizeBlockAtOffset(
                   S.labels,
                   MapSet(S.nodesOffsets, off, [recompiled EXCEPT !.ast = finalAst]),
                   off, -shrinkBytes)
      unchanged == MapSet(S.nodesOffsets, off, [blob EXCEPT !.ast = finalAst])
  IN  IF ~ast.labeledInstruction /\ ~ast.unresolvedArgs
      THEN [S EXCEPT !.cursor = S.cursor + 1, !.last = NoChange]
      ELSE IF resolved.arg.type = "THROWN" THEN Throw(S, resolved.arg.name)
      ELSE IF resolved.schemas = <<>> THEN Throw(S, "UNKNOWN_COMPILER_INSTRUCTION")
      ELSE IF shrinkBytes # 0
      THEN [S EXCEPT !.needPass = TRUE, !.labels = resized.labels,
                     !.nodesOffsets = resized.nodesOffsets,
                     !.cursor = MapIndex(resized.nodesOffsets, off) + 1,
                     !.last = Change("resize", off, -shrinkBytes, S.labels, S.nodesOffsets)]
      ELSE [S EXCEPT !.nodesOffsets = unchanged, !.cursor = S.cursor + 1, !.last = NoChange]

\* second pass, any other blob: nothing to do
SkipBlobFn(S) == [S EXCEPT !.cursor = S.cursor + 1, !.last = NoChange]

\* an outer loop that takes every pass for the last one
EndPassFn_AlwaysSuccess(S) == [S EXCEPT !.pc = "produce", !.last = NoChange]

\* end of the inner loop: success, next pass, or budget exhausted
EndPassFn(S) ==
  IF ~S.needPass THEN [S EXCEPT !.pc = "produce", !.last = NoChange]
  ELSE IF S.pass + 1 < S.maxPasses
       THEN [S EXCEPT !.totalPasses = S.pass + 1, !.pass = S.pass + 1,
                      !.needPass = FALSE, !.cursor = 1, !.last = NoChange]
       ELSE [Throw(S, "UNABLE_TO_COMPILE_FILE") EXCEPT
               !.totalPasses = S.pass + 1, !.pass = S.pass + 1, !.last = NoChange]

\* produce binaries
ProduceBinariesFn(S) ==
  LET orderedOffsets == IF S.needSort THEN SortByKey(S.nodesOffsets) ELSE S.nodesOffsets
  IN  [S EXCEPT !.blobs = CompileAll(orderedOffsets, <<>>), !.pc = "done"]

AtBlob(S, type) ==
  /\ S.pc = "secondPass"
  /\ S.cursor <= Len(S.nodesOffsets)
  /\ S.nodesOffsets[S.cursor].val.type = type

AtEndOfPass(S) == S.pc = "secondPass" /\ S.cursor > Len(S.nodesOffsets)

-----------------------------------------------------------------------------
(* The older X86Compiler of src/assembler: no `times`, no origin flag *)

emitBlobLegacy(acc, blob) ==
  [acc EXCEPT
     !.nodesOffsets = MapSet(acc.nodesOffsets, acc.origin + acc.offset, blob),
     !.offset = acc.offset + Len(blob.binary)]

processNodeLegacy(acc, node) ==
  LET absoluteAddress == acc.origin + acc.offset
  IN  IF node.kind = "COMPILER_OPTION" THEN
        IF node.option = "ORG" THEN [acc EXCEPT !.origin = node.arg, !.offset = 0]
        ELSE acc
      ELSE IF node.kind = "INSTRUCTION" THEN
        emitBlobLegacy(acc, BinaryInstruction_compile(
                              tryResolveSchema(node, NoResolver, NullAddr), absoluteAddress))
      ELSE IF node.kind = "DEFINE" THEN emitBlobLegacy(acc, BinaryDefinition_compile(node))
      ELSE IF node.kind = "LABEL" THEN
        IF node.name \in DOMAIN acc.labels
        THEN [acc EXCEPT !.error = "LABEL_ALREADY_DEFINED"]
        ELSE [acc EXCEPT !.labels =
                [n \in DOMAIN acc.labels \cup {node.name} |->
                   IF n = node.name THEN absoluteAddress ELSE acc.labels[n]]]
      ELSE [acc EXCEPT !.error = "UNKNOWN_COMPILER_INSTRUCTION"]

FirstPassNodeLegacyFn(S) ==
  LET acc == processNodeLegacy(
               FirstPassAcc(S.origin, S.offset, S.originDefined, S.labels, S.nodesOffsets, ""),
               S.tree[S.nodeIdx])
      S1 == [S EXCEPT !.origin = acc.origin, !.offset = acc.offset, !.labels = acc.labels,
                      !.nodesOffsets = acc.nodesOffsets, !.nodeIdx = S.nodeIdx + 1]
  IN  IF acc.error # "" THEN Throw(S, acc.error)
      ELSE IF S.nodeIdx + 1 > Len(S.tree)
           THEN [S1 EXCEPT !.pc = "secondPass", !.pass = 0, !.needPass = FALSE, !.cursor = 1]
           ELSE S1

EndPassLegacyFn(S) ==
  IF ~S.needPass
  THEN [S EXCEPT !.pc = "produce", !.totalPasses = S.pass + 1, !.last = NoChange]
  ELSE IF S.pass + 1 < S.maxPasses
       THEN [S EXCEPT !.pass = S.pass + 1, !.needPass = FALSE, !.cursor = 1, !.last = NoChange]
       ELSE [Throw(S, "UNABLE_TO_COMPILE_FILE") EXCEPT !.pass = S.pass + 1, !.last = NoChange]

ProduceBinariesLegacyFn(S) ==
  [S EXCEPT !.blobs = CompileAll(S.nodesOffsets, <<>>), !.pc = "done"]

\* the step compile() takes next
StepFn(S) ==
  IF S.pc = "firstPass" THEN FirstPassNodeFn(S)
  ELSE IF AtBlob(S, "BinaryRepeatedNode") THEN ExpandTimesFn(S)
  ELSE IF AtBlob(S, "BinaryInstruction") THEN ResolveInstructionFn(S)
  ELSE IF AtBlob(S, "BinaryDefinition") THEN SkipBlobFn(S)
  ELSE IF AtEndOfPass(S) THEN EndPassFn(S)
  ELSE IF S.pc = "produce" THEN ProduceBinariesFn(S)
  ELSE S

RECURSIVE Run(_)
Run(S) == IF S.pc \in {"done", "error"} THEN S ELSE Run(StepFn(S))

\* new X86Compiler(tree, maxPasses).compile()
compile(t, mp) == Run(InitState(t, mp))

-----------------------------------------------------------------------------
(* Programs *)

LabelNames == {"a"}
DefSizes == {125, 126, 127}
Origins == {1, 256}
NumberTargets == {0}
PassBudgets == {2, DefaultMaxPasses}
LOCK == 240

Fill(n) == [i \in 1..n |-> 0]
Prefixes(n) == [i \in 1..n |-> LOCK]

Nop == ASTInstruction("nop", NoArg, "", <<>>)

JmpLabels ==
  {ASTInstruction("jmp", LabelArg(n), bat, <<>>) : n \in LabelNames, bat \in {"", "short", "near"}}
  \cup {ASTInstruction("jmp", LabelArg(n), "", Prefixes(k)) : n \in LabelNames, k \in 1..MaxPrefixes}

JmpNumbers == {ASTInstruction("jmp", NumberArg(v), "", <<>>) : v \in NumberTargets}

Repeatable == {Nop} \cup {ASTInstruction("jmp", LabelArg(n), "", <<>>) : n \in LabelNames}

Nodes ==
  {ASTLabel(n) : n \in LabelNames}
  \cup {ASTCompilerOption("ORG", n) : n \in Origins}
  \cup {Nop}
  \cup {ASTDef(Fill(n)) : n \in DefSizes}
  \cup JmpLabels \cup JmpNumbers
  \cup {ASTTimes(k, node) : k \in 0..MaxTimes, node \in Repeatable}

UsedLabels(node) ==
  IF node.kind = "INSTRUCTION" THEN
    (IF node.originalArg.type = "LABEL" THEN {node.originalArg.name} ELSE {})
  ELSE IF node.kind = "TIMES" THEN
    (IF node.repeatedNode.originalArg.type = "LABEL" THEN {node.repeatedNode.originalArg.name} ELSE {})
  ELSE {}

DefinedLabels(t) == {t[i].name : i \in {j \in 1..Len(t) : t[j].kind = "LABEL"}}

\* every label an instruction names is defined somewhere in the program
WellFormed(t) == \A i \in 1..Len(t) : UsedLabels(t[i]) \subseteq DefinedLabels(t)

\* the nodes of a parsed tree are distinct objects
Identify(t) ==
  [i \in 1..Len(t) |->
     IF t[i].kind = "TIMES"
     THEN [t[i] EXCEPT !.loc = Loc(i, 0), !.repeatedNode.loc = Loc(i, 0)]
     ELSE [t[i] EXCEPT !.loc = Loc(i, 0)]]

Programs ==
  {Identify(t) : t \in {u \in UNION {[1..n -> Nodes] : n \in 1..MaxNodes} : WellFormed(u)}}

\* programs that open with an entry label, followed by up to MaxNodes nodes
EntryLabelPrograms ==
  {Identify(<<ASTLabel(n)>> \o u) :
     n \in LabelNames, u \in UNION {[1..k -> Nodes] : k \in 1..MaxNodes}}

\* programs with local labels, as written: two parents, a local label, jumps to it
ParentNames == {"a", "b"}

LocalJmps == {ASTInstruction("jmp", LabelArg(n), "", <<>>) : n \in LocalNames}

LocalNodes ==
  {ASTLabel(n) : n \in ParentNames \cup LocalNames}
  \cup LocalJmps
  \cup {ASTTimes(k, node) : k \in 1..MaxTimes, node \in LocalJmps}
  \cup {ASTDef(Fill(n)) : n \in {125}}

\* the parser names a local label definition after the non-local label before it
parseLocalLabels(t) ==
  [i \in 1..Len(t) |->
     IF t[i].kind = "LABEL" /\ isLocalLabel(t[i].name)
     THEN ASTLocalLabel(resolveLocalTokenAbsName(SubSeq(t, 1, i - 1), "", i - 2), t[i].name)
     ELSE t[i]]

\* the parser accepts a local label definition only under a parent
HasParents(t) ==
  \A i \in 1..Len(t) :
    (t[i].kind = "LABEL" /\ isLocalLabel(t[i].name)) =>
      \E j \in 1..(i - 1) : t[j].kind = "LABEL" /\ ~isLocalLabel(t[j].name)

LocalLabelPrograms ==
  {Identify(parseLocalLabels(t)) :
     t \in {u \in UNION {[1..n -> LocalNodes] : n \in 1..(MaxNodes + 1)} : HasParents(u)}}

-----------------------------------------------------------------------------
(* Specification *)

InitWith(trees) ==
  /\ tree \in trees
  /\ maxPasses \in PassBudgets
  /\ pc = "firstPass" /\ origin = 0 /\ offset = 0 /\ originDefined = FALSE
  /\ nodeIdx = 1 /\ labels = <<>> /\ nodesOffsets = <<>>
  /\ pass = 0 /\ needPass = FALSE /\ needSort = FALSE /\ cursor = 1
  /\ totalPasses = 0 /\ blobs = <<>> /\ error = "" /\ last = NoChange
  /\ encoder = EncoderIdle
  /\ argsParser = ArgsParserIdle
  /\ immMatch = ImmMatchIdle
  /\ memParser = MemParserIdle
  /\ modeSetter = ModeSetterIdle

FirstPassNode == pc = "firstPass" /\ Assign(FirstPassNodeFn(State))

ExpandTimes == AtBlob(State, "BinaryRepeatedNode") /\ Assign(ExpandTimesFn(State))

ResolveInstruction == AtBlob(State, "BinaryInstruction") /\ Assign(ResolveInstructionFn(State))

SkipBlob == AtBlob(State, "BinaryDefinition") /\ Assign(SkipBlobFn(State))

EndPass == AtEndOfPass(State) /\ Assign(EndPassFn(State))

ProduceBinaries == pc = "produce" /\ Assign(ProduceBinariesFn(State))

Init == InitWith(Programs)

Next ==
  \/ FirstPassNode
  \/ ExpandTimes
  \/ ResolveInstruction
  \/ SkipBlob
  \/ EndPass
  \/ ProduceBinaries

Spec == Init /\ [][Next]_vars

InitEntryLabel == InitWith(EntryLabelPrograms)

\* the same compiler on the programs that open with an entry label
SpecEntryLabel == InitEntryLabel /\ [][Next]_vars

InitLocalLabels == InitWith(LocalLabelPrograms)

\* the same compiler on the programs with local labels
SpecLocalLabels == InitLocalLabels /\ [][Next]_vars

(* The older compiler run on the same programs *)

FirstPassNodeLegacy == pc = "firstPass" /\ Assign(FirstPassNodeLegacyFn(State))

\* the older second pass shifts labels and blobs inline, as resizeBlockAtOffset does
ResolveInstructionLegacy ==
  AtBlob(State, "BinaryInstruction") /\ Assign(ResolveInstructionFn(State))

SkipBlobLegacy == AtBlob(State, "BinaryDefinition") /\ Assign(SkipBlobFn(State))

EndPassLegacy == AtEndOfPass(State) /\ Assign(EndPassLegacyFn(State))

ProduceBinariesLegacy == pc = "produce" /\ Assign(ProduceBinariesLegacyFn(State))

NextLegacy ==
  \/ FirstPassNodeLegacy
  \/ ResolveInstructionLegacy
  \/ SkipBlobLegacy
  \/ EndPassLegacy
  \/ ProduceBinariesLegacy

SpecLegacy == Init /\ [][NextLegacy]_vars

-----------------------------------------------------------------------------
(* Reading the result of a compilation *)

Signed8(b) == IF b >= 128 THEN b - 256 ELSE b

Signed16(lo, hi) == IF hi >= 128 THEN (hi * 256 + lo) - 65536 ELSE hi * 256 + lo

IsJump(blob) == blob.type = "BinaryInstruction" /\ blob.ast.opcode = "jmp"

IsJumpToLabel(blob) == IsJump(blob) /\ blob.ast.originalArg.type = "LABEL"

PrefixLen(blob) == Len(blob.ast.prefixes)

IsShort(blob) == blob.binary[PrefixLen(blob) + 1] = HexByte("eb")

IsNear(blob) == blob.binary[PrefixLen(blob) + 1] = HexByte("e9")

\* the displacement a CPU reads from the encoded jump
DecodedRel(blob) ==
  IF IsShort(blob) THEN Signed8(blob.binary[PrefixLen(blob) + 2])
  ELSE Signed16(blob.binary[PrefixLen(blob) + 2], blob.binary[PrefixLen(blob) + 3])

\* address of the byte that follows the whole instruction
EndOf(entry) == entry.key + Len(entry.val.binary)

-----------------------------------------------------------------------------
\* C1: after a successful compile every relative jump to a label lands on the
\* label: the decoded rel8/rel16 displacement plus the address of the byte
\* following the whole instruction (prefix bytes included) is the label's final
\* address.
C1_JumpLandsOnLabel ==
  pc = "done" =>
    \A i \in 1..Len(blobs) :
      IsJumpToLabel(blobs[i].val) =>
        DecodedRel(blobs[i].val) + EndOf(blobs[i]) = labels[blobs[i].val.ast.originalArg.name]

-----------------------------------------------------------------------------
(* Source order of the result *)

LocLess(l1, l2) == l1.node < l2.node \/ (l1.node = l2.node /\ l1.copy < l2.copy)

\* index in the tree of the node that defines label n
LabelIndex(n) == CHOOSE i \in 1..Len(tree) : tree[i].kind = "LABEL" /\ tree[i].name = n

\* positions, in a blob map m, of the blobs that follow label n in the source
Following(m, n) == {i \in 1..Len(m) : m[i].val.ast.loc.node > LabelIndex(n)}

FirstFollowing(m, n) ==
  CHOOSE i \in Following(m, n) :
    \A j \in Following(m, n) : j = i \/ LocLess(m[i].val.ast.loc, m[j].val.ast.loc)

\* the blobs a tree has to emit, as node identities
EmittedLocs ==
  UNION {IF tree[i].kind \in {"INSTRUCTION", "DEFINE"} THEN {Loc(i, 0)}
         ELSE IF tree[i].kind = "TIMES" THEN {Loc(i, j) : j \in 1..tree[i].timesExpression}
         ELSE {} : i \in 1..Len(tree)}

BlobLocs(m) == {m[i].val.ast.loc : i \in 1..Len(m)}

\* the program sets its origin, if at all, before it emits anything
OrgOnlyFirst == \A i \in 2..Len(tree) : tree[i].kind # "COMPILER_OPTION"

-----------------------------------------------------------------------------
\* C2: after a successful compile every label's recorded address is the final
\* address of the first byte of the first blob that follows the label in
\* source order, whatever shrinks and `times` expansions happened.  Stated for
\* the programs that set the origin before anything else, where no `org` lies
\* between a label and the blob after it.
C2_LabelAtNextBlob ==
  (pc = "done" /\ OrgOnlyFirst) =>
    \A n \in DOMAIN labels :
      Following(blobs, n) # {} => labels[n] = blobs[FirstFollowing(blobs, n)].key

\* C3: the final blobs, in the order the result map iterates them, tile
\* [origin, origin + total) exactly: the first is at the origin, each next one
\* starts where the previous one ends, and every emitted node is there once.
\* Stated for the programs that set the origin before anything else, so that
\* there is one origin for the whole image.
C3_BlobsTileImage ==
  (pc = "done" /\ OrgOnlyFirst) =>
    /\ blobs # <<>> => blobs[1].key = origin
    /\ \A i \in 1..(Len(blobs) - 1) : blobs[i + 1].key = EndOf(blobs[i])
    /\ BlobLocs(blobs) = EmittedLocs
    /\ Len(blobs) = Cardinality(EmittedLocs)

-----------------------------------------------------------------------------
\* C4: the final layout is a fixpoint: matching the schemas of every
\* instruction blob again, at its final address and against the final labels,
\* and encoding it again gives the bytes the compile produced.
C4_FinalLayoutIsFixpoint ==
  pc = "done" =>
    \A i \in 1..Len(blobs) :
      blobs[i].val.type = "BinaryInstruction" =>
        LET again == tryResolveSchema(blobs[i].val.ast, Resolver(labels, tree, blobs[i].val.ast),
                                      Addr(blobs[i].key))
        IN  /\ again.schemas # <<>>
            /\ BinaryInstruction_compile(again, blobs[i].key).binary = blobs[i].val.binary

-----------------------------------------------------------------------------
(* Comparing the layout before and after a change of the second pass *)

HasLoc(m, l) == \E i \in 1..Len(m) : m[i].val.ast.loc = l

KeyOfLoc(m, l) == m[CHOOSE i \in 1..Len(m) : m[i].val.ast.loc = l].key

\* the copies a `times` blob of node i expanded to, as positions in m
Copies(m, i) == {j \in 1..Len(m) : m[j].val.ast.loc.node = i /\ m[j].val.ast.loc.copy > 0}

RECURSIVE SumOver(_, _)
SumOver(m, set) ==
  IF set = {} THEN 0
  ELSE LET j == CHOOSE x \in set : TRUE
       IN  Len(m[j].val.binary) + SumOver(m, set \ {j})

\* bytes of the copies 1..(c-1) of node i
SizeBefore(m, i, c) == SumOver(m, {j \in Copies(m, i) : m[j].val.ast.loc.copy < c})

\* C6: `times k node` expands to exactly k consecutive copies that start at the
\* address of the times blob, and the blobs and labels that followed the times
\* blob start immediately after the last copy, for every k >= 0 and every
\* size of the copies, a total of 1 or 0 bytes included.
C6_TimesExpandsInPlace ==
  last.op = "times" =>
    LET off == last.offset
        old == last.nodesOffsets[MapIndex(last.nodesOffsets, off)].val
        node == old.ast.loc.node
        total == SumOver(nodesOffsets, Copies(nodesOffsets, node))
    IN  /\ Cardinality(Copies(nodesOffsets, node)) = old.ast.timesExpression
        /\ \A j \in Copies(nodesOffsets, node) :
             nodesOffsets[j].key
               = off + SizeBefore(nodesOffsets, node, nodesOffsets[j].val.ast.loc.copy)
        /\ \A i \in 1..Len(last.nodesOffsets) :
             last.nodesOffsets[i].key > off =>
               /\ HasLoc(nodesOffsets, last.nodesOffsets[i].val.ast.loc)
               /\ KeyOfLoc(nodesOffsets, last.nodesOffsets[i].val.ast.loc)
                    = last.nodesOffsets[i].key - 1 + total
        /\ \A n \in DOMAIN labels :
             labels[n] = IF last.labels[n] > off THEN last.labels[n] - 1 + total
                         ELSE last.labels[n]

\* C7: when re-encoding the instruction at address a makes it s > 0 bytes
\* shorter, every label and every blob whose address was greater than a has
\* its address reduced by exactly s, those at or below a keep theirs, and the
\* relative order of the blobs is unchanged.
C7_ShrinkShiftsWhatFollows ==
  (last.op = "resize" /\ last.enlarge < 0) =>
    LET a == last.offset
        s == -last.enlarge
        old == last.nodesOffsets
    IN  /\ \A n \in DOMAIN labels :
             labels[n] = IF last.labels[n] > a THEN last.labels[n] - s ELSE last.labels[n]
        /\ Len(nodesOffsets) = Len(old)
        /\ \A i \in 1..Len(old) :
             /\ HasLoc(nodesOffsets, old[i].val.ast.loc)
             /\ KeyOfLoc(nodesOffsets, old[i].val.ast.loc)
                  = IF old[i].key > a THEN old[i].key - s ELSE old[i].key
        /\ \A i, j \in 1..Len(old) :
             old[i].key < old[j].key =>
               KeyOfLoc(nodesOffsets, old[i].val.ast.loc)
                 < KeyOfLoc(nodesOffsets, old[j].val.ast.loc)

-----------------------------------------------------------------------------
\* distance of a jump: its target minus the address of the byte after the jump
Distance(entry) == labels[entry.val.ast.originalArg.name] - EndOf(entry)

\* C8: a jump to a label whose distance is exactly +127 or -127 is encoded
\* short (rel8); one whose distance is exactly +128 or -128 is encoded near
\* (rel16).  Stated for jumps that carry no `short` / `near` qualifier.
C8_ShortNearBoundary ==
  pc = "done" =>
    \A i \in 1..Len(blobs) :
      (IsJumpToLabel(blobs[i].val) /\ blobs[i].val.ast.branchAddressingType = "") =>
        /\ Distance(blobs[i]) \in {127, -127} => IsShort(blobs[i].val)
        /\ Distance(blobs[i]) \in {128, -128} => IsNear(blobs[i].val)

-----------------------------------------------------------------------------
\* the first pass is over: every node of the tree has been processed
InSecondPass == nodeIdx > Len(tree)

Returned == pc = "done"

Threw == pc = "error"

-----------------------------------------------------------------------------
\* the bytes of a result, blob by blob in the order of the result map
Image(m) == [i \in 1..Len(m) |-> m[i].val.binary]

\* the tree is `org N` put in front of a program that has no `org`
HasOrgPrefix ==
  /\ Len(tree) >= 2
  /\ tree[1].kind = "COMPILER_OPTION"
  /\ \A i \in 2..Len(tree) : tree[i].kind # "COMPILER_OPTION"

IsNumericJump(node) == node.kind = "INSTRUCTION" /\ node.originalArg.type = "NUMBER"

\* no jump of the tree names its target by number
NoNumericJumps ==
  \A i \in 1..Len(tree) :
    /\ ~IsNumericJump(tree[i])
    /\ tree[i].kind = "TIMES" => ~IsNumericJump(tree[i].repeatedNode)

\* the compile of `org N` + P against the compile of P alone
SameAsWithoutOrg ==
  LET ref == compile(Tail(tree), maxPasses)
  IN  ref.pc = "done" =>
        /\ Returned
        /\ Image(blobs) = Image(ref.blobs)
        /\ DOMAIN labels = DOMAIN ref.labels
        /\ \A n \in DOMAIN labels : labels[n] = ref.labels[n] + tree[1].arg

\* C9 as claimed: for a program P without `org` and any N, compiling `org N`
\* followed by P gives the bytes of compiling P and every label exactly N
\* greater.
C9_OriginInvariance ==
  ((Returned \/ Threw) /\ HasOrgPrefix) => SameAsWithoutOrg

\* C9 amended: the same, for the programs P none of whose jumps names its
\* target by number (an absolute target is encoded relative to the address of
\* the jump, so its bytes depend on the origin).
C9_OriginInvarianceOfLabelJumps ==
  ((Returned \/ Threw) /\ HasOrgPrefix /\ NoNumericJumps) => SameAsWithoutOrg

\* an `org`-prefixed program whose jump to a label was shrunk to the short form
C9_ShrunkJumpBehindOrg ==
  /\ Returned /\ HasOrgPrefix /\ NoNumericJumps
  /\ \E i \in 1..Len(blobs) : IsJumpToLabel(blobs[i].val) /\ IsShort(blobs[i].val)
  /\ \E i \in 1..Len(tree) : tree[i].kind = "TIMES"

-----------------------------------------------------------------------------
IsOrg(node) == node.kind = "COMPILER_OPTION" /\ node.option = "ORG"

\* the `org` nodes the first pass has processed without throwing
OrgsProcessed ==
  {i \in 1..Len(tree) : i < nodeIdx /\ IsOrg(tree[i])}

\* C10: the origin is set at most once: the first `org n` sets the origin to n
\* and resets the cursor to 0; any later `org` fails with ORIGIN_REDEFINED and
\* leaves the origin as it was.
C10_OriginSetOnce ==
  /\ Cardinality(OrgsProcessed) <= 1
  /\ \A i \in OrgsProcessed :
       /\ origin = tree[i].arg
       /\ nodeIdx = i + 1 => offset = 0
  /\ (Threw /\ nodeIdx <= Len(tree) /\ IsOrg(tree[nodeIdx])) =>
       (error = "ORIGIN_REDEFINED" /\ OrgsProcessed # {})

-----------------------------------------------------------------------------
(* Local labels *)

\* source position of the instruction of a blob: the node it was parsed as, or the
\* `times` node it was expanded from
SourceIndex(blob) == blob.ast.loc.node

IsLocalJump(blob) == IsJump(blob) /\ blob.ast.originalArg.type = "LABEL"
                     /\ isLocalLabel(blob.ast.originalArg.name)

\* non-local labels before position i of the program
ParentsBefore(i) ==
  {j \in 1..(i - 1) : tree[j].kind = "LABEL" /\ tree[j].localName = ""}

NearestParent(i) == tree[CHOOSE j \in ParentsBefore(i) : \A k \in ParentsBefore(i) : k <= j].name

\* positions of the instructions that use a local label, `times` bodies included
LocalUses ==
  {i \in 1..Len(tree) :
     \/ tree[i].kind = "INSTRUCTION" /\ tree[i].originalArg.type = "LABEL"
        /\ isLocalLabel(tree[i].originalArg.name)
     \/ tree[i].kind = "TIMES" /\ tree[i].timesExpression > 0
        /\ tree[i].repeatedNode.originalArg.type = "LABEL"
        /\ isLocalLabel(tree[i].repeatedNode.originalArg.name)}

\* C11: a local label used by an instruction resolves to the address of the local
\* label defined under the nearest non-local label that precedes the instruction in
\* source order, and a use with no preceding non-local label fails with
\* MISSING_PARENT_LABEL (and only such a use does)
C11_LocalLabelScope ==
  /\ Returned =>
        \A i \in 1..Len(blobs) :
          IsLocalJump(blobs[i].val) =>
            /\ ParentsBefore(SourceIndex(blobs[i].val)) # {}
            /\ LET abs == NearestParent(SourceIndex(blobs[i].val)) \o blobs[i].val.ast.originalArg.name
               IN  abs \in DOMAIN labels => blobs[i].val.ast.arg = NumberArg(labels[abs])
  /\ (Threw /\ error = "MISSING_PARENT_LABEL") =>
        \E i \in LocalUses : ParentsBefore(i) = {}

-----------------------------------------------------------------------------
(* Instruction encoder: ModR/M synthesis *)

\* InstructionArgSize
WORD == 2
DWORD == 4

\* RMAddressingMode
INDIRECT_ADDRESSING == 0
REG_ADDRESSING == 3

\* an absent rm (null)
NoRM == -1

\* the MOD = 00 chain of the lookup: rm for a base/index pair, NoRM when none applies
RMNoDisp_AcceptsBP(baseReg, scaleReg) ==
  IF baseReg = "bx" /\ scaleReg = "si" THEN 0
  ELSE IF baseReg = "bx" /\ scaleReg = "di" THEN 1
  ELSE IF baseReg = "bp" /\ scaleReg = "si" THEN 2
  ELSE IF baseReg = "bp" /\ scaleReg = "di" THEN 3
  ELSE IF scaleReg = NoReg THEN
    (IF baseReg = "si" THEN 4
     ELSE IF baseReg = "di" THEN 5
     ELSE IF baseReg = "bp" THEN 6
     ELSE IF baseReg = "bx" THEN 7
     ELSE NoRM)
  ELSE NoRM

RMNoDisp(baseReg, scaleReg) ==
  IF baseReg = "bx" /\ scaleReg = "si" THEN 0
  ELSE IF baseReg = "bx" /\ scaleReg = "di" THEN 1
  ELSE IF baseReg = "bp" /\ scaleReg = "si" THEN 2
  ELSE IF baseReg = "bp" /\ scaleReg = "di" THEN 3
  ELSE IF scaleReg = NoReg THEN
    (IF baseReg = "si" THEN 4
     ELSE IF baseReg = "di" THEN 5
     ELSE IF baseReg = "bx" THEN 7
     ELSE NoRM)
  ELSE NoRM

\* the MOD = 01 / MOD = 10 chain of the lookup
RMWithDisp(baseReg, scaleReg) ==
  IF baseReg = "bx" /\ scaleReg = "si" THEN 0
  ELSE IF baseReg = "bx" /\ scaleReg = "di" THEN 1
  ELSE IF baseReg = "bp" /\ scaleReg = "si" THEN 2
  ELSE IF baseReg = "bp" /\ scaleReg = "di" THEN 3
  ELSE IF scaleReg = NoReg THEN
    (IF baseReg = "si" THEN 4
     ELSE IF baseReg = "di" THEN 5
     ELSE IF baseReg = "bp" THEN 6
     ELSE IF baseReg = "bx" THEN 7
     ELSE NoRM)
  ELSE NoRM

\* <<mod, rm>>, or <<>> for null
RECURSIVE findMatchingMemAddressingRMByte(_, _, _, _, _)
findMatchingMemAddressingRMByte(mode, baseReg, scaleReg, dispRoundedSize, swapped) ==
  LET again == IF ~swapped
               THEN findMatchingMemAddressingRMByte(mode, scaleReg, baseReg, dispRoundedSize, TRUE)
               ELSE <<>>
  IN  IF mode # WORD THEN again
      ELSE IF dispRoundedSize = NoSize /\ RMNoDisp(baseReg, scaleReg) # NoRM
      THEN <<INDIRECT_ADDRESSING, RMNoDisp(baseReg, scaleReg)>>
      ELSE IF dispRoundedSize # NoSize /\ baseReg = NoReg /\ scaleReg = NoReg
              /\ dispRoundedSize <= WORD
      THEN <<INDIRECT_ADDRESSING, 6>>
      ELSE IF dispRoundedSize \in {1, 2} /\ RMWithDisp(baseReg, scaleReg) # NoRM
      THEN <<dispRoundedSize, RMWithDisp(baseReg, scaleReg)>>
      ELSE again

-----------------------------------------------------------------------------
(* Instruction encoder: operands *)

roundToPowerOfTwo(n) == IF n <= 1 THEN 1 ELSE IF n = 2 THEN 2 ELSE 4

\* RegisterSchema.index of the 16-bit registers
RegIndex(mnemonic) ==
  CASE mnemonic = "ax" -> 0 [] mnemonic = "cx" -> 1 [] mnemonic = "dx" -> 2
    [] mnemonic = "bx" -> 3 [] mnemonic = "sp" -> 4 [] mnemonic = "bp" -> 5
    [] mnemonic = "si" -> 6 [] mnemonic = "di" -> 7

\* InstructionPrefix.SREG_*: the prefix byte of a segment register, NoPrefix for none
NoPrefix == -1

findMatchingSregPrefix(sreg) ==
  CASE sreg = "cs" -> 46 [] sreg = "ss" -> 54 [] sreg = "ds" -> 62
    [] sreg = "es" -> 38 [] sreg = "fs" -> 100 [] sreg = "gs" -> 101
    [] OTHER -> NoPrefix

\* an absent ModR/M byte: <<>> is null, <<v>> is the value v
NoRMByte == <<>>

\* MemAddressDescription, as parseMemExpression leaves it
MemAddressDescription(sreg, reg, scale, disp) ==
  [sreg |-> sreg, reg |-> reg, scale |-> scale, disp |-> disp,
   dispByteSize |-> IF disp = NoDisp THEN NoSize ELSE numberByteSize(disp[1]),
   signedByteSize |-> IF disp = NoDisp THEN NoSize ELSE signedNumberByteSize(disp[1])]

\* the flags of the matched argument schema
ArgSchema(rm, moffset) == [rm |-> rm, moffset |-> moffset]

\* operands of an instruction
MemArg(addressDescription, schema) ==
  [type |-> "MEMORY", addressDescription |-> addressDescription, schema |-> schema]

RegArg(mnemonic, schema) == [type |-> "REGISTER", val |-> mnemonic, schema |-> schema]

ImmArg(v) == [type |-> "NUMBER", val |-> v, schema |-> ArgSchema(FALSE, FALSE)]

\* RMByte
RMByte(mod, reg, rm) == [mod |-> mod, reg |-> reg, rm |-> rm]

RMByte_byte(rmByte) == rmByte.mod * 64 + rmByte.reg * 8 + rmByte.rm

\* RMByte.getDisplacementByteSize, NoSize for null
getDisplacementByteSize(rmByte) ==
  IF rmByte.mod = 1 THEN 1
  ELSE IF rmByte.mod = 2 THEN 2
  ELSE IF rmByte.mod = INDIRECT_ADDRESSING /\ rmByte.rm = 6 THEN 2
  ELSE NoSize

\* index of the first operand that satisfies a test, 0 when there is none
FirstArg(args, Test(_)) ==
  IF \E i \in 1..Len(args) : Test(args[i])
  THEN CHOOSE i \in 1..Len(args) : Test(args[i]) /\ \A j \in 1..(i - 1) : ~Test(args[j])
  ELSE 0

IsMemArg(arg) == arg.type = "MEMORY"
IsNumArg(arg) == arg.type = "NUMBER"
IsRMArg(arg) == arg.schema.rm

\* ast.memArgs[0], ast.findRMArg(), ast.numArgs[0] as operand indexes
memArgIndex(ast) == FirstArg(ast.args, IsMemArg)
findRMArg(ast) == FirstArg(ast.args, IsRMArg)
numArgIndex(ast) == FirstArg(ast.args, IsNumArg)

\* R.find((arg) => arg !== rmArg, ast.regArgs)
otherRegArgIndex(ast) ==
  LET rmIdx == findRMArg(ast)
      regs == {i \in 1..Len(ast.args) : ast.args[i].type = "REGISTER" /\ i # rmIdx}
  IN  IF regs = {} THEN 0 ELSE CHOOSE i \in regs : \A j \in regs : i <= j

\* ast.getScale(): the scale of the memory operand when it multiplies the index
getScale(ast) ==
  LET m == memArgIndex(ast)
  IN  IF m = 0 THEN NoScale
      ELSE IF ast.args[m].addressDescription.scale = NoScale THEN NoScale
      ELSE IF ast.args[m].addressDescription.scale[1].value = 1 THEN NoScale
      ELSE ast.args[m].addressDescription.scale

\* BinaryInstruction.encodeRMByte: the RMByte, or the error thrown
encodeRMByte(mode, regArg, rmArg) ==
  LET ad == rmArg.addressDescription
      signedDispByteSize == IF ad.disp = NoDisp THEN NoSize
                            ELSE roundToPowerOfTwo(ad.signedByteSize)
      found == findMatchingMemAddressingRMByte(
                 mode, ad.reg,
                 IF ad.scale = NoScale THEN NoReg ELSE ad.scale[1].reg,
                 signedDispByteSize, FALSE)
      reg == IF regArg = <<>> THEN 0 ELSE RegIndex(regArg[1].val)
  IN  IF rmArg.type = "MEMORY" THEN
        IF found = <<>> THEN [rmByte |-> NoRMByte, error |-> "INVALID_ADDRESSING_MODE"]
        ELSE [rmByte |-> <<RMByte(found[1], reg, found[2])>>, error |-> ""]
      ELSE [rmByte |-> <<RMByte(REG_ADDRESSING, reg, RegIndex(rmArg.val))>>, error |-> ""]

-----------------------------------------------------------------------------
(* Instruction encoder: BinaryInstruction.compile, one template atom per step *)

DispAtoms == <<"d0", "d1", "d2", "d3">>
ImmAtoms == <<"i0", "i1", "i2", "i3">>
RegOverrideAtoms == <<"/0", "/1", "/2", "/3", "/4", "/5", "/6", "/7">>

IsAtomOf(atom, atoms) == \E i \in 1..Len(atoms) : atoms[i] = atom

\* +schema[1]: the digit of an atom
AtomDigit(atom, atoms) == (CHOOSE i \in 1..Len(atoms) : atoms[i] = atom) - 1

\* new BinaryInstruction(ast), about to run compile(compiler, absoluteAddress)
EncoderState(mode, ast) ==
  [pc |-> "compile", mode |-> mode, ast |-> ast, rmByte |-> NoRMByte,
   binaryPrefixes |-> <<>>, binaryOutputSize |-> 0, binary |-> <<>>, idx |-> 1,
   output |-> <<>>, error |-> ""]

EncoderThrow(E, code) == [E EXCEPT !.pc = "error", !.error = code]

\* compile() up to the template loop: ModR/M byte, scale check, displacement check,
\* segment override
EncoderStartFn(E) ==
  LET ast == E.ast
      m == memArgIndex(ast)
      r == findRMArg(ast)
      o == otherRegArgIndex(ast)
      encoded == IF r = 0 THEN [rmByte |-> NoRMByte, error |-> ""]
                 ELSE encodeRMByte(E.mode, IF o = 0 THEN <<>> ELSE <<ast.args[o]>>, ast.args[r])
      sibByte == getScale(ast)
      binaryOutputSize == ast.schema.byteSize + Len(ast.prefixes)
                          + (IF sibByte # NoScale THEN 1 ELSE 0)
      addressDescription == ast.args[m].addressDescription
      sregPrefix == findMatchingSregPrefix(addressDescription.sreg)
      E1 == [E EXCEPT !.rmByte = encoded.rmByte]
  IN  IF encoded.error # "" THEN EncoderThrow(E, encoded.error)
      ELSE IF sibByte # NoScale /\ E.mode > WORD
      THEN EncoderThrow(E1, "SCALE_INDEX_IS_UNSUPPORTED_IN_MODE")
      ELSE IF m # 0 /\ ~ast.args[m].schema.moffset /\ addressDescription.dispByteSize > E.mode
      THEN EncoderThrow(E1, "DISPLACEMENT_EXCEEDING_BYTE_SIZE")
      ELSE IF m # 0 /\ addressDescription.sreg # NoReg /\ sregPrefix = NoPrefix
      THEN EncoderThrow(E1, "INCORRECT_SREG_OVERRIDE")
      ELSE [E1 EXCEPT !.pc = "template",
                     !.binaryOutputSize = binaryOutputSize,
                     !.binaryPrefixes =
                        ast.prefixes \o (IF m # 0 /\ addressDescription.sreg # NoReg
                                         THEN <<sregPrefix>> ELSE <<>>)]

\* one call of the callback of primarySchema.binarySchema.forEach
EmitAtomFn(E) ==
  LET ast == E.ast
      schema == ast.schema.binarySchema[E.idx]
      m == memArgIndex(ast)
      n == numArgIndex(ast)
      addressDescription == ast.args[m].addressDescription
      Push(byte) == [E EXCEPT !.binary = Append(E.binary, byte), !.idx = E.idx + 1]
      Skip == [E EXCEPT !.idx = E.idx + 1]
  IN  IF IsAtomOf(schema, ImmAtoms) THEN
        IF n # 0 THEN Push(extractNthByte(AtomDigit(schema, ImmAtoms), ast.args[n].val))
        ELSE Push(0)
      ELSE IF IsAtomOf(schema, DispAtoms) THEN
        IF m = 0 THEN
          IF E.rmByte # NoRMByte THEN Skip ELSE EncoderThrow(E, "MISSING_MEM_ARG_DEF")
        ELSE IF addressDescription.disp = NoDisp THEN Skip
        ELSE IF E.rmByte = NoRMByte THEN EncoderThrow(E, "TypeError")
        ELSE LET byteOffset == AtomDigit(schema, DispAtoms)
                 rmMaxByteSize == getDisplacementByteSize(E.rmByte[1])
             IN  IF \/ ~ast.args[m].schema.rm
                    \/ rmMaxByteSize = NoSize
                    \/ byteOffset < Max(rmMaxByteSize, addressDescription.dispByteSize)
                 THEN Push(extractNthByte(byteOffset, addressDescription.disp[1]))
                 ELSE Skip
      ELSE IF schema = "mr" \/ IsAtomOf(schema, RegOverrideAtoms) THEN
        LET regByteOverride == IsAtomOf(schema, RegOverrideAtoms)
            rmByte == IF E.rmByte = NoRMByte THEN RMByte(REG_ADDRESSING, 0, 0) ELSE E.rmByte[1]
            final == IF regByteOverride
                     THEN [rmByte EXCEPT !.reg = AtomDigit(schema, RegOverrideAtoms)]
                     ELSE rmByte
        IN  IF E.rmByte = NoRMByte /\ ~regByteOverride
            THEN EncoderThrow(E, "MISSING_RM_BYTE_DEF")
            ELSE [Push(RMByte_byte(final)) EXCEPT !.rmByte = <<final>>]
      ELSE Push(HexByte(schema))

\* this._binary = [...binaryPrefixes, ...binary]
EncoderFinishFn(E) == [E EXCEPT !.pc = "done", !.output = E.binaryPrefixes \o E.binary]

\* template schemas of the encoder model
MovRwRmw == [binarySchema |-> <<"8b", "mr", "d0", "d1">>, byteSize |-> 4]
MovAxMoffs == [binarySchema |-> <<"a1", "d0", "d1">>, byteSize |-> 3]
SubRmwIbs == [binarySchema |-> <<"83", "/5", "d0", "d1", "i0">>, byteSize |-> 5]

EncoderInstruction(schema, prefixes, args) ==
  [schema |-> schema, prefixes |-> prefixes, args |-> args]

SegmentRegs == {"cs", "ss", "ds", "es", "fs", "gs"}
BaseRegs == {"bx", "bp", "si", "di", "ax"}
IndexRegs == {"si", "di", "bx"}
ScaleValues == {1, 4}
DispValues == {0, 5, -3, 200, 70000}

AddressDescriptions ==
  {MemAddressDescription(sreg, reg, scale, disp) :
     sreg \in SegmentRegs \cup {NoReg},
     reg \in BaseRegs \cup {NoReg},
     scale \in {NoScale} \cup {Scale(x, v) : x \in IndexRegs, v \in ScaleValues},
     disp \in {NoDisp} \cup {<<d>> : d \in DispValues}}

isDisplacementOnly(addressDescription) ==
  /\ addressDescription.reg = NoReg
  /\ addressDescription.scale = NoScale
  /\ addressDescription.disp # NoDisp

\* InstructionPrefix.DS, the prefix keyword `ds` written before a mnemonic
DS == 62

EncoderInstructions ==
  {EncoderInstruction(MovRwRmw, p,
     <<RegArg("bx", ArgSchema(FALSE, FALSE)), MemArg(ad, ArgSchema(TRUE, FALSE))>>) :
     p \in {<<>>, <<LOCK>>, <<DS>>}, ad \in AddressDescriptions}
  \cup {EncoderInstruction(MovRwRmw, <<>>,
     <<RegArg("bx", ArgSchema(FALSE, FALSE)), RegArg(x, ArgSchema(TRUE, FALSE))>>) :
     x \in BaseRegs}
  \cup {EncoderInstruction(MovAxMoffs, <<>>,
     <<RegArg("ax", ArgSchema(FALSE, FALSE)), MemArg(ad, ArgSchema(FALSE, TRUE))>>) :
     ad \in {x \in AddressDescriptions : isDisplacementOnly(x)}}
  \cup {EncoderInstruction(SubRmwIbs, <<>>,
     <<MemArg(ad, ArgSchema(TRUE, FALSE)), ImmArg(1)>>) : ad \in AddressDescriptions}
  \cup {EncoderInstruction(SubRmwIbs, <<>>,
     <<RegArg(x, ArgSchema(TRUE, FALSE)), ImmArg(1)>>) : x \in BaseRegs}

\* the layout engine is not running
LayoutIdle ==
  /\ tree = <<>> /\ maxPasses = DefaultMaxPasses
  /\ pc = "idle" /\ origin = 0 /\ offset = 0 /\ originDefined = FALSE
  /\ nodeIdx = 1 /\ labels = <<>> /\ nodesOffsets = <<>>
  /\ pass = 0 /\ needPass = FALSE /\ needSort = FALSE /\ cursor = 1
  /\ totalPasses = 0 /\ blobs = <<>> /\ error = "" /\ last = NoChange

InitEncoder ==
  /\ LayoutIdle
  /\ encoder \in {EncoderState(mode, ast) : mode \in {WORD, DWORD}, ast \in EncoderInstructions}
  /\ argsParser = ArgsParserIdle
  /\ immMatch = ImmMatchIdle
  /\ memParser = MemParserIdle
  /\ modeSetter = ModeSetterIdle

EncoderStart ==
  /\ encoder.pc = "compile"
  /\ encoder' = EncoderStartFn(encoder)
  /\ UNCHANGED <<layoutVars, argsParser, immMatch, memParser, modeSetter>>

EmitAtom ==
  /\ encoder.pc = "template"
  /\ encoder.idx <= Len(encoder.ast.schema.binarySchema)
  /\ encoder' = EmitAtomFn(encoder)
  /\ UNCHANGED <<layoutVars, argsParser, immMatch, memParser, modeSetter>>

EncoderFinish ==
  /\ encoder.pc = "template"
  /\ encoder.idx > Len(encoder.ast.schema.binarySchema)
  /\ encoder' = EncoderFinishFn(encoder)
  /\ UNCHANGED <<layoutVars, argsParser, immMatch, memParser, modeSetter>>

NextEncoder ==
  \/ EncoderStart
  \/ EmitAtom
  \/ EncoderFinish

SpecEncoder == InitEncoder /\ [][NextEncoder]_vars

-----------------------------------------------------------------------------
(* ModR/M of memory operands *)

\* the instruction has run through the first part of compile()
Encoding == encoder.pc \in {"template", "done", "error"}

\* the operand that goes into the r/m field is a memory operand
RMIsMemory ==
  /\ Encoding
  /\ findRMArg(encoder.ast) # 0
  /\ encoder.ast.args[findRMArg(encoder.ast)].type = "MEMORY"

RMAddress == encoder.ast.args[findRMArg(encoder.ast)].addressDescription

RMIndexReg == IF RMAddress.scale = NoScale THEN NoReg ELSE RMAddress.scale[1].reg

RMDispSize ==
  IF RMAddress.disp = NoDisp THEN NoSize ELSE roundToPowerOfTwo(RMAddress.signedByteSize)

\* the rm column of the 16-bit addressing table, for a pair in either order
TableRM(r1, r2) ==
  CASE {r1, r2} = {"bx", "si"} -> 0
    [] {r1, r2} = {"bx", "di"} -> 1
    [] {r1, r2} = {"bp", "si"} -> 2
    [] {r1, r2} = {"bp", "di"} -> 3
    [] {r1, r2} = {"si", NoReg} -> 4
    [] {r1, r2} = {"di", NoReg} -> 5
    [] {r1, r2} = {"bp", NoReg} -> 6
    [] {r1, r2} = {"bx", NoReg} -> 7
    [] OTHER -> NoRM

\* the <<mod, rm>> of the 16-bit addressing table, <<>> where it has no entry
TableEntry(r1, r2, dispSize) ==
  IF r1 = NoReg /\ r2 = NoReg
  THEN (IF dispSize \in {1, 2} THEN <<0, 6>> ELSE <<>>)
  ELSE IF TableRM(r1, r2) = NoRM THEN <<>>
  ELSE IF dispSize = NoSize
  THEN (IF TableRM(r1, r2) = 6 THEN <<>> ELSE <<0, TableRM(r1, r2)>>)
  ELSE IF dispSize \in {1, 2} THEN <<dispSize, TableRM(r1, r2)>>
  ELSE <<>>

\* C12: in 16-bit mode the ModR/M lookup gives bx+si, bx+di, bp+si, bp+di, si, di, bx
\* the rm values 0, 1, 2, 3, 4, 5, 7 with mod 00 without displacement, 01 with a
\* 1-byte and 10 with a 2-byte displacement; bp with a displacement gives rm 6; a
\* displacement alone gives mod 00 rm 6; base and index may be given in either order;
\* every other combination fails with INVALID_ADDRESSING_MODE
C12_ModRMTable ==
  (RMIsMemory /\ encoder.mode = WORD) =>
    LET entry == TableEntry(RMAddress.reg, RMIndexReg, RMDispSize)
    IN  IF entry = <<>>
        THEN encoder.pc = "error" /\ encoder.error = "INVALID_ADDRESSING_MODE"
        ELSE /\ encoder.error # "INVALID_ADDRESSING_MODE"
             /\ encoder.rmByte # NoRMByte
             /\ encoder.rmByte[1].mod = entry[1]
             /\ encoder.rmByte[1].rm = entry[2]

\* [si+bx+5], index written first, has been encoded as mod 01 rm 0
C12_SwappedPairEncoded ==
  /\ RMIsMemory /\ encoder.mode = WORD /\ encoder.pc = "done"
  /\ RMAddress.reg = "si" /\ RMIndexReg = "bx" /\ RMDispSize = 1
  /\ encoder.rmByte[1].mod = 1 /\ encoder.rmByte[1].rm = 0

\* position of the ModR/M atom in the template
ModRMAtomIndex(schema) ==
  CHOOSE i \in 1..Len(schema.binarySchema) :
    schema.binarySchema[i] = "mr" \/ IsAtomOf(schema.binarySchema[i], RegOverrideAtoms)

\* number of displacement atoms in the template
DispAtomCount(schema) ==
  Cardinality({i \in 1..Len(schema.binarySchema) : IsAtomOf(schema.binarySchema[i], DispAtoms)})

\* the rm operand is [bp], with nothing else inside the brackets but a segment
IsBPAlone ==
  /\ RMIsMemory
  /\ RMAddress.reg = "bp" /\ RMAddress.scale = NoScale /\ RMAddress.disp = NoDisp

\* C13: in 16-bit mode a memory operand [bp] without displacement compiles and is
\* encoded with mod=01, rm=110 followed by exactly one displacement byte of value 0
C13_BPWithoutDisplacement ==
  (IsBPAlone /\ encoder.mode = WORD) =>
    /\ encoder.pc # "error"
    /\ encoder.rmByte # NoRMByte
    /\ encoder.rmByte[1].mod = 1 /\ encoder.rmByte[1].rm = 6
    /\ encoder.pc = "done" =>
         /\ Len(encoder.output) = Len(encoder.binaryPrefixes)
                                   + Len(encoder.ast.schema.binarySchema)
                                   - DispAtomCount(encoder.ast.schema) + 1
         /\ encoder.output[Len(encoder.binaryPrefixes)
                            + ModRMAtomIndex(encoder.ast.schema) + 1] = 0

-----------------------------------------------------------------------------
(* Scaled index *)

\* the memory operand multiplies its index register by a scale other than 1
IsScaled ==
  /\ memArgIndex(encoder.ast) # 0
  /\ getScale(encoder.ast) # NoScale

\* C14: in 16-bit mode an instruction whose memory expression has a scale other than 1
\* fails with SCALE_INDEX_IS_UNSUPPORTED_IN_MODE and is never encoded as if the scale
\* were 1
C14_ScaleRejectedIn16Bit ==
  (IsScaled /\ encoder.mode = WORD /\ encoder.pc \in {"template", "done", "error"}) =>
    /\ encoder.pc = "error"
    /\ encoder.error = "SCALE_INDEX_IS_UNSUPPORTED_IN_MODE"

-----------------------------------------------------------------------------
(* Emitted length *)

\* the memory operand is a moffs operand: a bare offset without a ModR/M byte
IsMoffsForm ==
  /\ memArgIndex(encoder.ast) # 0
  /\ encoder.ast.args[memArgIndex(encoder.ast)].schema.moffset

\* displacement bytes implied by the mod field of a ModR/M byte
DispBytesOfMod(rmByte) ==
  IF rmByte.mod = 0 THEN (IF rmByte.rm = 6 THEN 2 ELSE 0)
  ELSE IF rmByte.mod = 1 THEN 1
  ELSE IF rmByte.mod = 2 THEN 2
  ELSE 0

ExpectedDispBytes ==
  IF IsMoffsForm THEN DispAtomCount(encoder.ast.schema)
  ELSE IF encoder.rmByte = NoRMByte THEN 0
  ELSE DispBytesOfMod(encoder.rmByte[1])

\* C15: the emitted byte length of an instruction is the number of prefix bytes plus
\* the bytes of the template of its schema, with as many displacement bytes as the mod
\* field of the ModR/M byte implies (none for mod=00 except 2 for rm=110, 1 for mod=01,
\* 2 for mod=10, none for mod=11), and with all displacement bytes of the template for
\* a moffs form, whose template loop therefore runs to its end
C15_EmittedLength ==
  /\ encoder.pc = "done" =>
        Len(encoder.output) =
          Len(encoder.binaryPrefixes) + Len(encoder.ast.schema.binarySchema)
          - DispAtomCount(encoder.ast.schema) + ExpectedDispBytes
  /\ (IsMoffsForm /\ encoder.binaryOutputSize > 0) => encoder.pc # "error"

-----------------------------------------------------------------------------
(* Operand parser: tokens and operands *)

\* BranchAddressingType absent (null)
NoBranch == ""

\* BRANCH_ADDRESSING_SIZE_MAPPING[type]
BranchAddressingSize(type) ==
  IF type = "short" THEN 1 ELSE IF type = "near" THEN 2 ELSE 4

\* Reg.byteSize of COMPILER_REGISTERS_SET
RegByteSize(mnemonic) == IF mnemonic \in {"al", "ah", "bl", "bh", "cl", "ch", "dl", "dh"} THEN 1 ELSE 2

RegisterToken(text) == Token("KEYWORD", "REGISTER", text, 0, RegByteSize(text))

SizeOverrideToken(text) ==
  Token("KEYWORD", "BYTE_SIZE_OVERRIDE", text, 0,
        IF text = "byte" THEN 1 ELSE IF text = "word" THEN WORD ELSE DWORD)

NumberToken(text, number) == Token("NUMBER", "", text, number, roundToPowerOfTwo(numberByteSize(number)))

\* str.charCodeAt(i) of the quoted texts of the model, one code per character
CharCodes(text) ==
  LET alphabet == <<97, 98, 99, 100, 101, 102, 103, 104, 105>>
      length == CASE text = "a" -> 1 [] text = "ab" -> 2 [] text = "abc" -> 3
                  [] text = "abcde" -> 5 [] text = "abcdefgh" -> 8 [] text = "abcdefghi" -> 9
                  [] OTHER -> 0
  IN  SubSeq(alphabet, 1, length)

RECURSIVE BitOr(_, _)
\* a | b of two non-negative int32
BitOr(a, b) ==
  IF a = 0 THEN b ELSE IF b = 0 THEN a
  ELSE (IF a % 2 = 1 \/ b % 2 = 1 THEN 1 ELSE 0) + 2 * BitOr(a \div 2, b \div 2)

RECURSIVE reduceTextFrom(_, _, _)
\* the loop of reduceTextToBitset: acc |= code << (i * 0x8), i counted from 0; the shift
\* count of an int32 is taken modulo 32, and the codes of the model leave the sign bit clear
reduceTextFrom(str, i, acc) ==
  IF i >= Len(str) THEN acc
  ELSE reduceTextFrom(str, i + 1, BitOr(acc, str[i + 1] * Pow256(i % 4)))

\* reduceTextToBitset: <<>> is null
reduceTextToBitset(str) ==
  IF str = <<>> \/ Len(str) > 8 THEN <<>> ELSE <<reduceTextFrom(str, 0, 0)>>

\* a quoted text; byteSize holds text.length
QuoteToken(text) == Token("QUOTE", "", text, 0, Len(CharCodes(text)))

\* the text between [ and ]
BracketToken(phrase) == Token("BRACKET", "SQUARE_BRACKET", phrase, 0, NoSize)

ColonToken == Token("COLON", "", ":", 0, NoSize)

\* MAX_COMPILER_REG_LENGTH of registersSet.ts: the widest register of COMPILER_REGISTERS_SET
MAX_COMPILER_REG_LENGTH == WORD

\* MAX_COMPILER_REG_LENGTH of x86.ts: the widest register of its set, an x87 register
X87_REG_LENGTH == 10

\* the values MAX_COMPILER_REG_LENGTH has in the two constants modules that export it
RegLengthLimits == {MAX_COMPILER_REG_LENGTH, X87_REG_LENGTH}

\* parseMemExpression(phrase).disp of the phrases of the model, <<>> when the phrase has none
PhraseDisp(phrase) ==
  IF phrase = "0x0" THEN <<0>>
  ELSE IF phrase = "0x100" THEN <<256>>
  ELSE IF phrase = "bx+0x2" THEN <<2>>
  ELSE <<>>

\* parseMemExpression(phrase).dispByteSize: numberByteSize(disp), null without a displacement
PhraseDispByteSize(phrase) ==
  IF PhraseDisp(phrase) = <<>> THEN NoSize ELSE numberByteSize(PhraseDisp(phrase)[1])

\* a ?? b on sizes
Coalesce(a, b) == IF a # NoSize THEN a ELSE b

\* new ASTInstructionArg(type, value, byteSize); signedByteSize is a field of Number operands
ASTInstructionArg(type, text, number, byteSize) ==
  [type |-> type, text |-> text, number |-> number, byteSize |-> byteSize,
   signedByteSize |-> NoSize]

ASTInstructionRegisterArg(text, byteSize) == ASTInstructionArg("REGISTER", text, 0, byteSize)

ASTInstructionNumberArg(number, byteSize) ==
  [ASTInstructionArg("NUMBER", "", number, byteSize)
     EXCEPT !.signedByteSize = roundedSignedNumberByteSize(number)]

\* the constructor runs tryResolve: a null byteSize becomes R.defaultTo(0, dispByteSize)
ASTInstructionMemPtrArg(phrase, byteSize) ==
  ASTInstructionArg("MEMORY", phrase, 0,
    IF byteSize # NoSize THEN byteSize
    ELSE IF PhraseDispByteSize(phrase) = NoSize THEN 0 ELSE PhraseDispByteSize(phrase))

ASTInstructionMemSegmentedArg(phrase, byteSize) == ASTInstructionArg("SEGMENTED_MEMORY", phrase, 0, byteSize)

\* 0xFF << n of an int32: the shift count is taken modulo 32 and the bits shifted past
\* bit 31 are lost, which leaves -(2^k) once the top bit of 0xFF reaches the sign bit
ShiftLeftFF(n) ==
  LET k == n % 32
  IN  IF k <= 23 THEN 255 * 2^k ELSE 0 - 2^k

upperCastByteSize_Keeps(arg, byteSize) == arg

\* ASTInstructionNumberArg.upperCastByteSize: this.byteSize = Math.max(this.byteSize, byteSize),
\* signedByteSize from 0xFF << (this.byteSize * 0x8 + 1)
upperCastByteSize(arg, byteSize) ==
  LET newByteSize == IF arg.byteSize > byteSize THEN arg.byteSize ELSE byteSize
  IN  [arg EXCEPT !.byteSize = newByteSize,
                  !.signedByteSize = roundToPowerOfTwo(numberByteSize(ShiftLeftFF(newByteSize * 8 + 1)))]

-----------------------------------------------------------------------------
(* Operand parser: ASTInstruction.parseInstructionArgsTokens *)

\* the locals of parseInstructionArgsTokens at its first token, with the value
\* MAX_COMPILER_REG_LENGTH has in the build (maxRegLength); result is the operand
\* the last parseToken call returned, before any upcast (history)
ArgsParserState(branchAddressingType, tokens, defaultMemArgByteSize, maxRegLength) ==
  [pc |-> "parse", tokens |-> tokens, tokenIndex |-> 1,
   maxRegLength |-> maxRegLength,
   branchAddressingType |-> branchAddressingType,
   defaultMemArgByteSize |-> defaultMemArgByteSize,
   byteSizeOverride |-> NoSize,
   branchSizeOverride |->
     IF branchAddressingType # NoBranch THEN BranchAddressingSize(branchAddressingType) * 2 ELSE NoSize,
   acc |-> <<>>, result |-> <<>>, error |-> ""]

\* outcomes of parseToken: an operand, null, or a thrown ParserError
Produced(P, arg) == [P |-> P, result |-> <<arg>>, error |-> ""]

Skipped(P) == [P |-> P, result |-> <<>>, error |-> ""]

Thrown(P, code) == [P |-> P, result |-> <<>>, error |-> code]

parseNumberArg(P, number, byteSize) ==
  IF P.byteSizeOverride # NoSize /\ P.byteSizeOverride < byteSize
  THEN Thrown(P, "EXCEEDING_CASTED_NUMBER_SIZE")
  ELSE Produced(P, ASTInstructionNumberArg(number, Coalesce(P.byteSizeOverride, byteSize)))

\* R.find(arg => arg.type === REGISTER, prevArgs)?.byteSize, NoSize when there is none
prevRegArgByteSize(prevArgs) ==
  LET regs == {k \in 1..Len(prevArgs) : prevArgs[k].type = "REGISTER"}
  IN  IF regs = {} THEN NoSize
      ELSE prevArgs[CHOOSE k \in regs : \A j \in regs : k <= j].byteSize

\* case TokenType.BRACKET of parseToken
parseBracket(P, token, hasNext, nextToken) ==
  LET memSize == Coalesce(P.byteSizeOverride, Coalesce(P.branchSizeOverride, P.defaultMemArgByteSize))
  IN  IF memSize # NoSize THEN Produced(P, ASTInstructionMemPtrArg(token.text, memSize))
      ELSE IF P.acc = <<>>
      THEN Produced(P, ASTInstructionMemPtrArg(token.text,
             IF hasNext /\ nextToken.kind = "REGISTER" THEN nextToken.byteSize ELSE NoSize))
      ELSE IF prevRegArgByteSize(P.acc) > 0
      THEN Produced(P, ASTInstructionMemPtrArg(token.text, prevRegArgByteSize(P.acc)))
      ELSE Thrown(P, "MISSING_MEM_OPERAND_SIZE")

\* case TokenType.KEYWORD of parseToken
parseKeyword(P, token) ==
  IF token.kind = "REGISTER" THEN Produced(P, ASTInstructionRegisterArg(token.text, token.byteSize))
  ELSE IF token.kind = "BYTE_SIZE_OVERRIDE"
  THEN IF P.branchSizeOverride > 0
       THEN IF token.byteSize * 2 < P.branchSizeOverride
            THEN Thrown(P, "OPERAND_SIZES_MISMATCH")
            ELSE Skipped([P EXCEPT !.byteSizeOverride = token.byteSize * 2])
       ELSE Skipped([P EXCEPT !.byteSizeOverride = token.byteSize])
  ELSE Produced(P, ASTInstructionArg("LABEL", token.text, 0,
                     Coalesce(P.byteSizeOverride, P.branchSizeOverride)))

\* nextToken is a colon: a segmented operand, eating the colon and the token after it
parseSegmented(P, token) ==
  LET forced == P.branchAddressingType = NoBranch
      Q == [P EXCEPT !.branchAddressingType = IF forced THEN "far" ELSE @,
                     !.branchSizeOverride = IF forced THEN BranchAddressingSize("far") * 2 ELSE @,
                     !.tokenIndex = @ + 2]
      offsetText == IF Q.tokenIndex <= Len(P.tokens) THEN P.tokens[Q.tokenIndex].text ELSE "undefined"
  IN  Produced(Q, ASTInstructionMemSegmentedArg(token.text \o ":" \o offsetText,
                    Coalesce(P.byteSizeOverride, Coalesce(Q.branchSizeOverride, token.byteSize))))

parseToken(P) ==
  LET token == P.tokens[P.tokenIndex]
      hasNext == P.tokenIndex < Len(P.tokens)
      nextToken == P.tokens[IF hasNext THEN P.tokenIndex + 1 ELSE P.tokenIndex]
  IN  IF hasNext /\ nextToken.type = "COLON" THEN parseSegmented(P, token)
      ELSE IF token.type = "QUOTE"
      THEN IF token.byteSize > P.maxRegLength
           THEN Thrown(P, "INCORRECT_ARG_QUOTE_TEXT_LENGTH")
           ELSE LET bitset == reduceTextToBitset(CharCodes(token.text))
                IN  parseNumberArg(P, IF bitset = <<>> THEN 0 ELSE bitset[1], token.byteSize)
      ELSE IF token.type = "KEYWORD" THEN parseKeyword(P, token)
      ELSE IF token.type = "NUMBER" THEN parseNumberArg(P, token.number, token.byteSize)
      ELSE IF token.type = "BRACKET" /\ token.kind = "SQUARE_BRACKET"
      THEN parseBracket(P, token, hasNext, nextToken)
      ELSE Thrown(P, "INVALID_INSTRUCTION_OPERAND")

ArgsParserThrow(P, code) == [P EXCEPT !.pc = "error", !.error = code]

\* result and the last operand of acc differ in size and neither is a label
sizeMismatch(acc, result) ==
  /\ acc # <<>>
  /\ result.type # "LABEL"
  /\ acc[Len(acc)].type # "LABEL"
  /\ result.byteSize # acc[Len(acc)].byteSize

\* one call of the callback of argsTokensIterator.iterate, and the ++tokenIndex after it
ParseTokenFn(P) ==
  LET r == parseToken(P)
      Q == [r.P EXCEPT !.result = r.result]
  IN  IF r.error # "" THEN ArgsParserThrow(Q, r.error)
      ELSE IF r.result = <<>> THEN [Q EXCEPT !.tokenIndex = @ + 1]
      ELSE LET result == r.result[1]
               prevByteSize == Q.acc[Len(Q.acc)].byteSize
           IN  IF ~sizeMismatch(Q.acc, result)
               THEN [Q EXCEPT !.acc = Append(@, result), !.tokenIndex = @ + 1]
               ELSE IF result.type = "NUMBER" /\ result.byteSize < prevByteSize
               THEN [Q EXCEPT !.acc = Append(@, upperCastByteSize(result, prevByteSize)),
                              !.tokenIndex = @ + 1]
               ELSE ArgsParserThrow(Q, "OPERAND_SIZES_MISMATCH")

\* return [branchAddressingType, acc]
ArgsParserFinishFn(P) == [P EXCEPT !.pc = "done"]

(* Inputs *)

MaxTokens == 3       \* longest token list of one instruction

ArgTokens ==
  {RegisterToken("al"), RegisterToken("ax"),
   SizeOverrideToken("byte"), SizeOverrideToken("word"),
   NumberToken("0x1", 1), NumberToken("300", 300),
   BracketToken("0x0"), BracketToken("bx"),
   IdentifierToken("lbl"), ColonToken,
   QuoteToken("a"), QuoteToken("ab"), QuoteToken("abc"), QuoteToken("abcde"),
   QuoteToken("abcdefgh"), QuoteToken("abcdefghi")}

TokenLists == UNION {[1..n -> ArgTokens] : n \in 1..MaxTokens}

InitArgsParser ==
  /\ LayoutIdle
  /\ encoder = EncoderIdle
  /\ immMatch = ImmMatchIdle
  /\ memParser = MemParserIdle
  /\ modeSetter = ModeSetterIdle
  /\ argsParser \in {ArgsParserState(b, tokens, d, m) :
                       b \in {NoBranch, "near"}, tokens \in TokenLists,
                       d \in {NoSize, WORD}, m \in RegLengthLimits}

ParseToken ==
  /\ argsParser.pc = "parse"
  /\ argsParser.tokenIndex <= Len(argsParser.tokens)
  /\ argsParser' = ParseTokenFn(argsParser)
  /\ UNCHANGED <<layoutVars, encoder, immMatch, memParser, modeSetter>>

ArgsParserFinish ==
  /\ argsParser.pc = "parse"
  /\ argsParser.tokenIndex > Len(argsParser.tokens)
  /\ argsParser' = ArgsParserFinishFn(argsParser)
  /\ UNCHANGED <<layoutVars, encoder, immMatch, memParser, modeSetter>>

NextArgsParser ==
  \/ ParseToken
  \/ ArgsParserFinish

SpecArgsParser == InitArgsParser /\ [][NextArgsParser]_vars

-----------------------------------------------------------------------------
(* Memory-size deduction *)

\* two operands written without a size override, outside a branch instruction,
\* each of which parses on its own
IsPlainPair ==
  /\ argsParser.pc # "idle"
  /\ argsParser.branchAddressingType = NoBranch
  /\ argsParser.defaultMemArgByteSize = NoSize
  /\ Len(argsParser.tokens) = 2
  /\ \A k \in 1..2 :
       /\ argsParser.tokens[k].kind # "BYTE_SIZE_OVERRIDE"
       /\ argsParser.tokens[k].type # "COLON"
       /\ argsParser.tokens[k].type = "QUOTE" => argsParser.tokens[k].byteSize <= argsParser.maxRegLength

\* C16: a memory operand written without a size override takes the size of the
\* other operand when that is a register, in either position, and otherwise the
\* parse fails with MISSING_MEM_OPERAND_SIZE: `mov [0x0], ax` gives the memory
\* operand size 2, `mov [0x0], 0x1` is rejected.
C16_MemOperandSize ==
  IsPlainPair => \A m \in 1..2 : argsParser.tokens[m].type = "BRACKET" =>
    LET other == argsParser.tokens[3 - m]
    IN  IF other.kind = "REGISTER"
        THEN /\ argsParser.pc # "error"
             /\ argsParser.pc = "done" => /\ Len(argsParser.acc) = 2
                                          /\ argsParser.acc[m].type = "MEMORY"
                                          /\ argsParser.acc[m].byteSize = other.byteSize
        ELSE /\ argsParser.pc # "done"
             /\ argsParser.pc = "error" => argsParser.error = "MISSING_MEM_OPERAND_SIZE"

-----------------------------------------------------------------------------
(* Mixed-size rule *)

\* the operands collected before the last parseToken result was handled
PriorArgs ==
  IF argsParser.pc = "error" \/ argsParser.result = <<>> THEN argsParser.acc
  ELSE SubSeq(argsParser.acc, 1, Len(argsParser.acc) - 1)

\* C17: when an operand is produced whose byte size differs from the previous
\* operand's and neither is a label, either it is a Number smaller than the
\* previous operand and is upcast to that operand's size, or parsing fails with
\* OPERAND_SIZES_MISMATCH; so adjacent non-label operands of the collected list
\* always have equal byte size.
C17_MixedSizeRule ==
  argsParser.pc # "idle" =>
    /\ \A k \in 1..(Len(argsParser.acc) - 1) :
         (argsParser.acc[k].type # "LABEL" /\ argsParser.acc[k + 1].type # "LABEL")
           => argsParser.acc[k].byteSize = argsParser.acc[k + 1].byteSize
    /\ (argsParser.result # <<>> /\ sizeMismatch(PriorArgs, argsParser.result[1])) =>
         \/ argsParser.pc = "error" /\ argsParser.error = "OPERAND_SIZES_MISMATCH"
         \/ /\ argsParser.pc # "error"
            /\ argsParser.result[1].type = "NUMBER"
            /\ argsParser.result[1].byteSize < PriorArgs[Len(PriorArgs)].byteSize
            /\ argsParser.acc[Len(argsParser.acc)].type = "NUMBER"
            /\ argsParser.acc[Len(argsParser.acc)].number = argsParser.result[1].number
            /\ argsParser.acc[Len(argsParser.acc)].byteSize = PriorArgs[Len(PriorArgs)].byteSize

\* `ax, 0x1` has been parsed: the 1-byte number was collected as a 2-byte operand
C17_NumberUpcast ==
  /\ argsParser.pc = "done"
  /\ Len(argsParser.acc) = 2
  /\ argsParser.acc[1].type = "REGISTER" /\ argsParser.acc[1].byteSize = WORD
  /\ argsParser.result # <<>>
  /\ argsParser.result[1].type = "NUMBER" /\ argsParser.result[1].byteSize = 1
  /\ argsParser.acc[2].type = "NUMBER" /\ argsParser.acc[2].byteSize = WORD

-----------------------------------------------------------------------------
(* Size override *)

\* tokens[k] is written directly after a size-override keyword
FollowsOverride(k) ==
  /\ k >= 2
  /\ k <= Len(argsParser.tokens)
  /\ argsParser.tokens[k - 1].kind = "BYTE_SIZE_OVERRIDE"

\* the token handled by the last callback that returned
LastToken == argsParser.tokenIndex - 1

\* C18: a size override applies to exactly the next operand produced. No
\* override is pending once an operand has been produced, so a number that does
\* not directly follow an override keeps the size of its own magnitude and is
\* never rejected with EXCEEDING_CASTED_NUMBER_SIZE.
C18_OverrideAppliesOnce ==
  /\ (argsParser.pc \in {"parse", "done"} /\ argsParser.byteSizeOverride # NoSize) =>
       /\ LastToken >= 1
       /\ argsParser.tokens[LastToken].kind = "BYTE_SIZE_OVERRIDE"
  /\ (argsParser.pc = "error" /\ argsParser.error = "EXCEEDING_CASTED_NUMBER_SIZE") =>
       FollowsOverride(argsParser.tokenIndex)
  /\ (/\ argsParser.pc \in {"parse", "done"}
      /\ argsParser.result # <<>>
      /\ argsParser.result[1].type = "NUMBER"
      /\ ~FollowsOverride(LastToken)) =>
       argsParser.result[1].byteSize = argsParser.tokens[LastToken].byteSize

-----------------------------------------------------------------------------
(* Sign-extended immediate matcher *)

\* X86AbstractCPU.signExtend(num, bits, targetBits): the low `bits` bytes of num taken
\* as value, value | (-((value >> (8 * bits - 1)) & 1) << (8 * bits)), masked to
\* targetBits bytes; the operators work on int32, which the 4-byte mask leaves as it is
signExtend(num, bits, targetBits) ==
  LET value == num % Pow256(bits)
      sign == (value \div (Pow256(bits) \div 2)) % 2
      ored == IF sign = 1 THEN value - Pow256(bits) ELSE value
  IN  IF targetBits >= DWORD THEN ored ELSE ored % Pow256(targetBits)

immCanBeImplicitSignExtendedToByte(arg, srcByteSize, minTargetByteSize) ==
  IF arg.type # "NUMBER" THEN FALSE
  ELSE LET targetSize == IF arg.byteSize > minTargetByteSize THEN arg.byteSize ELSE minTargetByteSize
           originalValue == toUnsignedNumber(arg.number, targetSize)
           extended == signExtend(originalValue, srcByteSize, arg.signedByteSize)
       IN  toUnsignedNumber(extended, targetSize) = originalValue

(* Inputs *)

MaxImm == 130        \* every immediate of -MaxImm..MaxImm is tried

\* the values around the limits of a signed byte, a byte and a word
ImmValues ==
  (-MaxImm..MaxImm) \cup {255, 256, 4660, 32767, 32768, 65407, 65408, 65534, 65535, -32768, -256}

\* a number literal about to become an operand: after an optional `word` override
\* and after a previous operand of prevByteSize bytes (NoSize when it is the first)
ImmMatchState(number, byteSizeOverride, prevByteSize) ==
  [pc |-> "create", number |-> number, byteSizeOverride |-> byteSizeOverride,
   prevByteSize |-> prevByteSize, arg |-> <<>>, accepted |-> FALSE, error |-> ""]

InitImmMatch ==
  /\ LayoutIdle
  /\ encoder = EncoderIdle
  /\ argsParser = ArgsParserIdle
  /\ immMatch \in {ImmMatchState(n, o, p) : n \in ImmValues, o \in {NoSize, WORD}, p \in {NoSize, WORD}}
  /\ memParser = MemParserIdle
  /\ modeSetter = ModeSetterIdle

\* parseNumberArg on the literal
CreateNumberArgFn(I) ==
  LET r == parseNumberArg([byteSizeOverride |-> I.byteSizeOverride], I.number,
                          roundToPowerOfTwo(numberByteSize(I.number)))
  IN  IF r.error # "" THEN [I EXCEPT !.pc = "error", !.error = r.error]
      ELSE [I EXCEPT !.pc = "cast", !.arg = r.result]

\* the size check of the operand against the previous one
CastNumberArgFn(I) ==
  IF I.prevByteSize = NoSize \/ I.arg[1].byteSize = I.prevByteSize THEN [I EXCEPT !.pc = "match"]
  ELSE IF I.arg[1].byteSize < I.prevByteSize
  THEN [I EXCEPT !.pc = "match", !.arg = <<upperCastByteSize(I.arg[1], I.prevByteSize)>>]
  ELSE [I EXCEPT !.pc = "error", !.error = "OPERAND_SIZES_MISMATCH"]

\* the ib_s matcher of a 16-bit instruction
MatchImmFn(I) ==
  [I EXCEPT !.pc = "done", !.accepted = immCanBeImplicitSignExtendedToByte(I.arg[1], 1, WORD)]

CreateNumberArg ==
  /\ immMatch.pc = "create"
  /\ immMatch' = CreateNumberArgFn(immMatch)
  /\ UNCHANGED <<layoutVars, encoder, argsParser, memParser, modeSetter>>

CastNumberArg ==
  /\ immMatch.pc = "cast"
  /\ immMatch' = CastNumberArgFn(immMatch)
  /\ UNCHANGED <<layoutVars, encoder, argsParser, memParser, modeSetter>>

MatchImm ==
  /\ immMatch.pc = "match"
  /\ immMatch' = MatchImmFn(immMatch)
  /\ UNCHANGED <<layoutVars, encoder, argsParser, memParser, modeSetter>>

NextImmMatch ==
  \/ CreateNumberArg
  \/ CastNumberArg
  \/ MatchImm

SpecImmMatch == InitImmMatch /\ [][NextImmMatch]_vars

\* the value of the operand as an unsigned 16-bit integer
UnsignedWord == immMatch.number % 65536

\* C19: for a 16-bit target the sign-extended-immediate matcher accepts a Number
\* operand exactly when its value, as an unsigned word, is the sign extension of
\* its low byte: the values 0x0000..0x007F and 0xFF80..0xFFFF.
C19_SignExtendedImmediate ==
  immMatch.pc = "done" =>
    (immMatch.accepted <=> (UnsignedWord \in 0..127 \/ UnsignedWord \in 65408..65535))

-----------------------------------------------------------------------------
(* Segment-override prefix *)

\* the segment an addressing form uses when none is written: ss with bp, ds otherwise
DefaultSegment(addressDescription) ==
  IF \/ addressDescription.reg = "bp"
     \/ (addressDescription.scale # NoScale /\ addressDescription.scale[1].reg = "bp")
  THEN "ss" ELSE "ds"

\* the override byte of each segment register
SegmentOverrideByte(sreg) ==
  CASE sreg = "cs" -> 46 [] sreg = "ss" -> 54 [] sreg = "ds" -> 62
    [] sreg = "es" -> 38 [] sreg = "fs" -> 100 [] sreg = "gs" -> 101

\* the segment prefix the memory operand of the instruction needs, as a sequence
ExpectedSegmentPrefix ==
  LET ad == encoder.ast.args[memArgIndex(encoder.ast)].addressDescription
  IN  IF ad.sreg # NoReg /\ ad.sreg # DefaultSegment(ad)
      THEN <<SegmentOverrideByte(ad.sreg)>> ELSE <<>>

\* C20: a segment-override prefix byte is emitted for a memory operand exactly when
\* its segment register is set and differs from the default segment of the
\* addressing form (0x2E cs, 0x36 ss, 0x3E ds, 0x26 es, 0x64 fs, 0x65 gs), it
\* precedes the opcode bytes, and no prefix is emitted for the default segment.
C20_SegmentOverridePrefix ==
  (encoder.pc \in {"template", "done"} /\ memArgIndex(encoder.ast) # 0) =>
    /\ encoder.binaryPrefixes = encoder.ast.prefixes \o ExpectedSegmentPrefix
    /\ encoder.pc = "done" =>
         /\ Len(encoder.output) > Len(encoder.ast.prefixes) + Len(ExpectedSegmentPrefix)
         /\ SubSeq(encoder.output, 1, Len(encoder.ast.prefixes) + Len(ExpectedSegmentPrefix))
              = encoder.ast.prefixes \o ExpectedSegmentPrefix
         /\ encoder.output[Len(encoder.ast.prefixes) + Len(ExpectedSegmentPrefix) + 1]
              = HexByte(encoder.ast.schema.binarySchema[1])

-----------------------------------------------------------------------------
(* Conflicting segment overrides *)

\* the prefix bytes that are segment overrides
SegmentPrefixBytes == {SegmentOverrideByte(sreg) : sreg \in SegmentRegs}

\* the segment-override bytes of a sequence of prefixes, in order
SegmentPrefixesOf(prefixes) ==
  {k \in 1..Len(prefixes) : prefixes[k] \in SegmentPrefixBytes}

\* the instruction carries a segment prefix keyword and its memory operand names
\* another segment register
HasSegmentConflict ==
  /\ Encoding
  /\ memArgIndex(encoder.ast) # 0
  /\ LET ad == encoder.ast.args[memArgIndex(encoder.ast)].addressDescription
     IN  /\ ad.sreg # NoReg
         /\ \E k \in SegmentPrefixesOf(encoder.ast.prefixes) :
              encoder.ast.prefixes[k] # SegmentOverrideByte(ad.sreg)

\* C21: an instruction with two different segment overrides (a segment prefix
\* keyword and a memory operand with another segment register) fails with
\* CONFLICT_SREG_OVERRIDE before anything is emitted, and no instruction gets two
\* segment prefix bytes.
C21_SegmentOverrideConflict ==
  /\ HasSegmentConflict =>
       /\ encoder.pc = "error"
       /\ encoder.error \in {"CONFLICT_SREG_OVERRIDE", "INVALID_ADDRESSING_MODE",
                             "SCALE_INDEX_IS_UNSUPPORTED_IN_MODE", "DISPLACEMENT_EXCEEDING_BYTE_SIZE"}
  /\ Encoding => Cardinality(SegmentPrefixesOf(encoder.binaryPrefixes)) <= 1
  /\ encoder.pc = "done" => Cardinality(SegmentPrefixesOf(SubSeq(encoder.output, 1, Len(encoder.binaryPrefixes)))) <= 1

-----------------------------------------------------------------------------
(* Memory expressions: inputs *)

MaxTerms == 3

\* the terms a phrase of the model is made of
MemTerms ==
  {<<RegisterToken(r)>> : r \in {"bx", "si", "di"}}
  \cup {<<RegisterToken("si"), MulToken, NumberToken("2", 2)>>,
        <<RegisterToken("di"), MulToken, NumberToken("4", 4)>>,
        <<RegisterToken("si"), MulToken, NumberToken("3", 3)>>,
        <<NumberToken("2", 2), MulToken, RegisterToken("bx")>>,
        <<NumberToken("0x10", 16)>>,
        <<IdentifierToken("lbl")>>}

\* the `<reg> :` a phrase of the model starts with
MemSegmentPrefixes == {<<>>, <<RegisterToken("es"), ColonToken>>, <<RegisterToken("bx"), ColonToken>>}

RECURSIVE JoinTerms(_)
\* the terms written one after another with + between them
JoinTerms(terms) ==
  IF Len(terms) = 1 THEN terms[1]
  ELSE terms[1] \o <<PlusToken>> \o JoinTerms(Tail(terms))

MemExpressions ==
  {p \o JoinTerms(terms) : p \in MemSegmentPrefixes,
                           terms \in UNION {[1..n -> MemTerms] : n \in 1..MaxTerms}}

InitMemParser ==
  /\ LayoutIdle
  /\ encoder = EncoderIdle
  /\ argsParser = ArgsParserIdle
  /\ immMatch = ImmMatchIdle
  /\ modeSetter = ModeSetterIdle
  /\ memParser \in {MemParserState(e, r) : e \in MemExpressions,
                                           r \in {NoResolver, NameResolver([lbl |-> 258])}}

MemScan ==
  /\ memParser.pc = "scan"
  /\ memParser.i <= Len(memParser.tokens)
  /\ memParser' = MemScanFn(memParser)
  /\ UNCHANGED <<layoutVars, encoder, argsParser, immMatch, modeSetter>>

MemDisplacement ==
  /\ memParser.pc = "scan"
  /\ memParser.i > Len(memParser.tokens)
  /\ memParser' = MemDisplacementFn(memParser)
  /\ UNCHANGED <<layoutVars, encoder, argsParser, immMatch, modeSetter>>

NextMemParser == MemScan \/ MemDisplacement

SpecMemParser == InitMemParser /\ [][NextMemParser]_vars

\* the phrase starts with `<reg> :`
StartsWithRegColon(expression) ==
  /\ Len(expression) >= 2
  /\ expression[1].kind = "REGISTER"
  /\ expression[2].type = "COLON"

\* the first iteration of the loop is over
PastFirstToken == memParser.pc # "scan" \/ memParser.tokens # memParser.expression

\* C22: a phrase that begins with `<reg> :` fails with REGISTER_IS_NOT_SEGMENT_REG when the
\* leading register is not a segment register, and the segment override of the address
\* description is only ever a segment register.
C22_LeadingRegisterIsSegment ==
  /\ memParser.pc # "idle" =>
       memParser.addressDescription.sreg \in SegmentRegs \cup {NoReg}
  /\ (/\ memParser.pc # "idle"
      /\ StartsWithRegColon(memParser.expression)
      /\ memParser.expression[1].text \notin SegmentRegs
      /\ PastFirstToken)
     => (memParser.pc = "error" /\ memParser.error = "REGISTER_IS_NOT_SEGMENT_REG")

\* the positions of the register multiplications of a phrase: reg*num and num*reg
Multiplications(expression) ==
  {k \in 2..(Len(expression) - 1) :
     /\ expression[k].type = "MUL"
     /\ (expression[k - 1].kind = "REGISTER" \/ expression[k + 1].kind = "REGISTER")}

\* the positions of the registers of a phrase, the one of `<reg> :` left out
AddressRegisters(expression) ==
  {k \in 1..Len(expression) :
     /\ expression[k].kind = "REGISTER"
     /\ ~(k = 1 /\ StartsWithRegColon(expression))}

MemParserOver == memParser.pc \in {"done", "error", "unresolved"}

\* C23: a phrase with two register multiplications fails with SCALE_IS_ALREADY_DEFINED, a
\* phrase with one multiplication at most and three registers fails with
\* INCORRECT_MEM_EXPRESSION, in whatever order its terms are written, and no other phrase
\* fails with either error (a scale outside 1, 2, 4, 8 may fail first with INCORRECT_SCALE).
C23_ScaleAndRegisterLimits ==
  MemParserOver =>
    LET mults == Cardinality(Multiplications(memParser.expression))
        regs == Cardinality(AddressRegisters(memParser.expression))
    IN  /\ mults >= 2 =>
              /\ memParser.pc = "error"
              /\ memParser.error \in {"SCALE_IS_ALREADY_DEFINED", "INCORRECT_SCALE"} \cup
                                     (IF regs >= 3 THEN {"INCORRECT_MEM_EXPRESSION"} ELSE {})
        /\ (mults <= 1 /\ regs >= 3) =>
              /\ memParser.pc = "error"
              /\ memParser.error \in {"INCORRECT_MEM_EXPRESSION", "INCORRECT_SCALE"}
        /\ (mults <= 1 /\ regs <= 2) =>
              memParser.error \notin {"SCALE_IS_ALREADY_DEFINED", "INCORRECT_MEM_EXPRESSION"}

-----------------------------------------------------------------------------
(* Memory operands that name a label *)

\* mov bx, [n]
MovMemLabels == {ASTInstruction("mov", ASTInstructionMemLabelArg(n), "", <<>>) : n \in LabelNames}

IsMovMemLabel(node) == node.kind = "INSTRUCTION" /\ node.originalArg.type = "MEMORY"

\* programs with a memory operand that names a label of the program
MemLabelPrograms ==
  {Identify(t) : t \in {u \in UNION {[1..n -> Nodes \cup MovMemLabels] : n \in 1..MaxNodes} :
                          /\ \E i \in 1..Len(u) : IsMovMemLabel(u[i])
                          /\ \A i \in 1..Len(u) : IsMovMemLabel(u[i]) =>
                                u[i].originalArg.name \in DefinedLabels(u)
                          /\ WellFormed(u)}}

InitMemLabel == InitWith(MemLabelPrograms)

\* the same compiler on the programs with a memory operand that names a label
SpecMemLabel == InitMemLabel /\ [][Next]_vars

\* the blobs of the second pass's map that hold a mov bx, [n]
MemLabelBlobs(map) == {i \in 1..Len(map) : map[i].val.type = "BinaryInstruction"
                                           /\ IsMovMemLabel(map[i].val.ast)}

\* the bytes of mov bx, [address]
MovBxMem(address) == <<139, 30, address % 256, (address \div 256) % 256>>

-----------------------------------------------------------------------------
(* Displacement wider than the mode *)

\* the ModR/M-addressed memory operand has a displacement of more bytes than the mode
DisplacementExceedsMode ==
  /\ RMIsMemory
  /\ ~IsMoffsForm
  /\ RMAddress.disp # NoDisp
  /\ RMAddress.dispByteSize > encoder.mode

\* C25: an instruction whose ModR/M-addressed memory operand has a displacement of more
\* bytes than the operand-size mode allows fails with DISPLACEMENT_EXCEEDING_BYTE_SIZE and
\* with no other error.
C25_DisplacementExceedsMode ==
  DisplacementExceedsMode =>
    (encoder.pc = "error" /\ encoder.error = "DISPLACEMENT_EXCEEDING_BYTE_SIZE")

-----------------------------------------------------------------------------
(* X86Compiler.setMode under the `bits` options of a program *)

\* MIN_COMPILER_REG_LENGTH of x86.ts
MIN_COMPILER_REG_LENGTH == WORD

\* setMode of the older compiler, which tests the mode it has instead of the one given
setModeLegacy(C, mode) ==
  IF C.mode < MIN_COMPILER_REG_LENGTH \/ C.mode > X87_REG_LENGTH
  THEN [C EXCEPT !.pc = "error", !.error = "UNSUPPORTED_COMPILER_MODE"]
  ELSE [C EXCEPT !.mode = mode]

\* X86Compiler.setMode
setMode(C, mode) ==
  IF mode < MIN_COMPILER_REG_LENGTH \/ mode > X87_REG_LENGTH
  THEN [C EXCEPT !.pc = "error", !.error = "UNSUPPORTED_COMPILER_MODE"]
  ELSE [C EXCEPT !.mode = mode]

MaxBitsOptions == 3

\* the numbers written after `bits`: whole bytes, so that n / 8 is an integer
BitsValues == {8, 16, 24, 32, 64, 80, 88}

\* a compiler about to walk a program of `bits` options; mode is in bytes, before and
\* applied remember the mode ahead of the last option taken and the number it gave
ModeSetterState(options, legacy) ==
  [pc |-> "firstPass", legacy |-> legacy, mode |-> WORD, options |-> options, idx |-> 1,
   error |-> "", before |-> WORD, applied |-> 0]

InitModeSetter ==
  /\ LayoutIdle
  /\ encoder = EncoderIdle
  /\ argsParser = ArgsParserIdle
  /\ immMatch = ImmMatchIdle
  /\ memParser = MemParserIdle
  /\ modeSetter \in {ModeSetterState(o, l) :
                       o \in UNION {[1..n -> BitsValues] : n \in 1..MaxBitsOptions},
                       l \in BOOLEAN}

\* firstPass on a `bits n` option: this.setMode(arg.value.number / 8)
BitsOptionFn(C) ==
  LET n == C.options[C.idx]
      taken == [C EXCEPT !.idx = C.idx + 1, !.before = C.mode, !.applied = n]
  IN  setMode(taken, n \div 8)

\* firstPass of the older compiler on a `bits n` option: this.setMode(arg.value.number)
BitsOptionLegacyFn(C) ==
  LET n == C.options[C.idx]
      taken == [C EXCEPT !.idx = C.idx + 1, !.before = C.mode, !.applied = n]
  IN  setModeLegacy(taken, n)

BitsOption ==
  /\ modeSetter.pc = "firstPass"
  /\ ~modeSetter.legacy
  /\ modeSetter.idx <= Len(modeSetter.options)
  /\ modeSetter' = BitsOptionFn(modeSetter)
  /\ UNCHANGED <<layoutVars, encoder, argsParser, immMatch, memParser>>

BitsOptionLegacy ==
  /\ modeSetter.pc = "firstPass"
  /\ modeSetter.legacy
  /\ modeSetter.idx <= Len(modeSetter.options)
  /\ modeSetter' = BitsOptionLegacyFn(modeSetter)
  /\ UNCHANGED <<layoutVars, encoder, argsParser, immMatch, memParser>>

NextModeSetter == BitsOption \/ BitsOptionLegacy

SpecModeSetter == InitModeSetter /\ [][NextModeSetter]_vars

\* C26: `bits n` is accepted only for n = 16 and n = 32 and then sets the mode to n bits;
\* for every other n it fails with UNSUPPORTED_COMPILER_MODE and leaves the mode as it was.
C26_BitsSixteenOrThirtyTwo ==
  (modeSetter.pc # "idle" /\ ~modeSetter.legacy /\ modeSetter.applied # 0) =>
    IF modeSetter.applied \in {16, 32}
    THEN modeSetter.pc = "firstPass" /\ modeSetter.mode * 8 = modeSetter.applied
    ELSE /\ modeSetter.pc = "error"
         /\ modeSetter.error = "UNSUPPORTED_COMPILER_MODE"
         /\ modeSetter.mode = modeSetter.before

-----------------------------------------------------------------------------
(* Quoted text as a number *)

\* the instruction has one operand, a quoted text, and no branch type or default size
IsQuoteAlone ==
  /\ argsParser.pc # "idle"
  /\ argsParser.branchAddressingType = NoBranch
  /\ Len(argsParser.tokens) = 1
  /\ argsParser.tokens[1].type = "QUOTE"

\* the quoted text has been given to parseToken
QuoteParsed == IsQuoteAlone /\ (argsParser.tokenIndex > 1 \/ argsParser.pc = "error")

\* C27: a quoted text of n characters, 1 <= n <= 8, becomes a Number operand of byte size
\* n whose bytes 0..n-1 are the character codes in order; a longer text is rejected.
C27_QuotePacksLittleEndian ==
  QuoteParsed =>
    LET codes == CharCodes(argsParser.tokens[1].text)
        n == Len(codes)
    IN  IF n \in 1..8
        THEN /\ argsParser.error = ""
             /\ Len(argsParser.acc) = 1
             /\ argsParser.acc[1].type = "NUMBER"
             /\ argsParser.acc[1].byteSize = n
             /\ \A i \in 0..(n - 1) : extractNthByte(i, argsParser.acc[1].number) = codes[i + 1]
        ELSE argsParser.error = "INCORRECT_ARG_QUOTE_TEXT_LENGTH"

-----------------------------------------------------------------------------
(* Jumps to a numeric target *)

IsJumpToNumber(blob) == IsJump(blob) /\ blob.ast.originalArg.type = "NUMBER"

\* distance of a jump to a number: the target minus the address of the byte after the jump
NumberDistance(entry) == entry.val.ast.originalArg.val - EndOf(entry)

\* C28: the form finally emitted for a jump to a numeric target has a field that can
\* represent the distance from the end of the instruction, at its final address, to the
\* target: rel8 only for -128..127, rel16 only for -32768..32767, for every origin and
\* every position of the jump.
C28_NumberJumpFormFitsDistance ==
  pc = "done" =>
    \A i \in 1..Len(blobs) :
      IsJumpToNumber(blobs[i].val) =>
        /\ IsShort(blobs[i].val) => NumberDistance(blobs[i]) \in -128..127
        /\ IsNear(blobs[i].val) => NumberDistance(blobs[i]) \in -32768..32767

-----------------------------------------------------------------------------
(* Re-encoding in the second pass *)

\* the step just taken re-encoded an instruction to a different length
Reencoded == pc # "idle" /\ last.op = "resize"

\* C29: the length recorded for an instruction is an upper bound on the length of every
\* later re-encoding: a re-encoding of the second pass never enlarges the instruction, so
\* it never moves the blobs and labels behind it to higher addresses.
C29_ReencodingNeverGrows ==
  Reencoded =>
    /\ last.enlarge <= 0
    /\ \A i \in 1..Len(last.nodesOffsets) :
         HasLoc(nodesOffsets, last.nodesOffsets[i].val.ast.loc) =>
           KeyOfLoc(nodesOffsets, last.nodesOffsets[i].val.ast.loc) <= last.nodesOffsets[i].key
    /\ \A n \in DOMAIN last.labels : labels[n] <= last.labels[n]

-----------------------------------------------------------------------------
(* `times` directives and the pass budget *)

MaxDirectives == 4   \* longest program of the programs below

\* nodes that no pass can shrink: `times k nop`, nop, a data definition, a label, an origin
NoShrinkNodes ==
  {ASTTimes(k, Nop) : k \in 0..MaxTimes}
  \cup {Nop, ASTDef(Fill(1))}
  \cup {ASTLabel(n) : n \in LabelNames}
  \cup {ASTCompilerOption("ORG", n) : n \in Origins}

\* number of nodes of t that satisfy kind = k
CountKind(t, k) == Cardinality({i \in 1..Len(t) : t[i].kind = k})

\* programs of such nodes that the first pass accepts: one origin and one definition
\* of a label at most
TimesPrograms ==
  {Identify(t) : t \in {u \in UNION {[1..n -> NoShrinkNodes] : n \in 1..MaxDirectives} :
                          /\ CountKind(u, "COMPILER_OPTION") <= 1
                          /\ CountKind(u, "LABEL") <= 1}}

InitTimes == InitWith(TimesPrograms)

\* the same compiler on the programs that nothing can shrink
SpecTimes == InitTimes /\ [][Next]_vars

\* outcome of a whole compilation of the program of the current state
Compiled == compile(tree, maxPasses)

\* what C30 says of a program with t `times` directives
TimesBudgetRule(t) ==
  /\ last.op = "times" => (needPass /\ cursor > Len(nodesOffsets))
  /\ pc = "done" => (t < maxPasses /\ totalPasses = t)
  /\ pc = "error" => (error = "UNABLE_TO_COMPILE_FILE" /\ t >= maxPasses)
  /\ nodeIdx = 1 => (Compiled.pc = "done" <=> t < maxPasses)

OrgComesFirst == \A i \in 2..Len(tree) : tree[i].kind # "COMPILER_OPTION"

====
